---- MODULE Spec2Model ----
(***************************************************************************)
(* Delayo: the background wake engine (src/src/background/index.ts) and    *)
(* the popup operations that share its store.                              *)
(*                                                                         *)
(* Instants are whole minutes, counted from the local midnight that       *)
(* starts Monday 2024-01-01.  Every candidate the recurrence code builds   *)
(* has seconds and milliseconds zeroed (setHours(h, m, 0, 0)), so          *)
(* comparing whole minutes decides every `<=' of the code the way the      *)
(* millisecond values do.                                                  *)
(***************************************************************************)
EXTENDS Integers, Sequences, FiniteSets, TLC

VARIABLES
  store,    \* chrome.storage.local's delayedTabs: the persisted collection
  alarms,   \* chrome.alarms: the armed alarms, a set of [id, when]
  now,      \* the clock
  nextId,   \* the next value generateUniqueTabId hands out
  procs,    \* the handler invocations: each one's locals and position
  writer,   \* the invocation whose storage.set wrote the current store
  known,    \* the ids the popup lists (what a 'wake-tabs' request can name)
  serial,   \* TRUE when the triggers arrive one at a time
  calc,     \* a call of calculateNextWakeTime on its own: inputs and result
  popup     \* the Sleeping Tabs view of the popup: its list and its position

vars ==
  <<store, alarms, now, nextId, procs, writer, known, serial, calc, popup>>

-----------------------------------------------------------------------------
(* Bounds of the model.                                                    *)

\* items in the collection the model starts from
MaxItems == 3
\* values handed out by generateUniqueTabId before the model stops creating
MaxFresh == 3
\* times the clock is advanced (by one day each time)
MaxTicks == 1
\* handler invocations the model keeps at a time
MaxProcs == 2

-----------------------------------------------------------------------------
(* Absent values.                                                          *)

\* calculateNextWakeTime's `return null'
Null == -1
\* a missing (falsy) windowSessionId
NoSession == 0
\* a missing (falsy) url
NoUrl == 0
\* a windowIndex that is not a number
NoIndex == -1
\* a missing dayOfMonth / endDate of a pattern (falsy)
Unset == 0
\* the TypeError of `recurrencePattern.time.split' on a pattern without time
Throw == -2

\* the time value of an invalid Date
NaN == -3

\* whether the object p has the property f
Has(p, f) == f \in DOMAIN p

NoPattern ==
  [type |-> "none", time |-> <<>>, daysOfWeek |-> <<>>,
   dayOfMonth |-> Unset, endDate |-> Unset]

-----------------------------------------------------------------------------
(* Local calendar arithmetic of the JavaScript Date object.                *)

MinutesPerDay == 24 * 60

\* months are counted from January 2024 (month 0)
IsLeap(y) == (y % 4 = 0 /\ y % 100 # 0) \/ y % 400 = 0

DaysInMonth(mi) ==
  LET m == mi % 12
      y == 2024 + (mi \div 12)
  IN  IF m = 1 THEN (IF IsLeap(y) THEN 29 ELSE 28)
      ELSE IF m \in {3, 5, 8, 10} THEN 30 ELSE 31

RECURSIVE MonthStart(_)
\* the day number of the first day of month mi
MonthStart(mi) == IF mi = 0 THEN 0 ELSE MonthStart(mi - 1) + DaysInMonth(mi - 1)

RECURSIVE MonthFrom(_, _)
MonthFrom(d, mi) == IF d < MonthStart(mi + 1) THEN mi ELSE MonthFrom(d, mi + 1)

\* the month a day number falls in
MonthOfDay(d) == MonthFrom(d, 0)

DayOf(t) == t \div MinutesPerDay
TimeOfDay(t) == t % MinutesPerDay

\* Date.prototype.getDay: 0 = Sunday .. 6 = Saturday (day 0 is a Monday)
getDay(t) == (DayOf(t) + 1) % 7
\* Date.prototype.getDate: the day of the month, from 1
getDate(t) == DayOf(t) - MonthStart(MonthOfDay(DayOf(t))) + 1
\* Date.prototype.getMonth, counted in months since January 2024
getMonth(t) == MonthOfDay(DayOf(t))
\* Date.prototype.setHours(h, m, 0, 0)
setHours(t, h, m) == DayOf(t) * MinutesPerDay + h * 60 + m
\* Date.prototype.setDate(n): day n of t's month, rolling over past its end
setDate(t, n) ==
  (MonthStart(getMonth(t)) + n - 1) * MinutesPerDay + TimeOfDay(t)
\* Date.prototype.setMonth(mi): same day-of-month in month mi, rolling over
setMonth(t, mi) ==
  (MonthStart(mi) + getDate(t) - 1) * MinutesPerDay + TimeOfDay(t)

-----------------------------------------------------------------------------
(* Instants and local time.  An instant (Date.prototype.getTime) is counted *)
(* in minutes of standard time since local midnight of Monday 2024-01-01.  *)
(* The setters and getters of Date work on the wall-clock reading of the   *)
(* instant in the time zone of the browser.                                *)

\* a zone whose clock never changes, and one with daylight saving time: the
\* clock is an hour ahead from Sunday 2024-03-10 02:00 to Sunday 2024-11-03
\* 02:00 (wall clock), as in New York
Zones == {"fixed", "dst"}
DstStartWall == (MonthStart(2) + 9) * MinutesPerDay + 2 * 60
DstEndWall == (MonthStart(10) + 2) * MinutesPerDay + 2 * 60

\* the wall-clock reading of instant t
LocalTime(z, t) ==
  IF z = "dst" /\ DstStartWall <= t /\ t < DstEndWall - 60 THEN t + 60 ELSE t

\* the instant of wall-clock reading l: a reading the clock skips is taken
\* with the offset before the change, a reading it shows twice is the first
UTC(z, l) ==
  IF z = "dst" /\ DstStartWall + 60 <= l /\ l < DstEndWall THEN l - 60 ELSE l

\* date.setHours(h, m, 0, 0) on the Date of instant t
withHours(z, t, h, m) == UTC(z, setHours(LocalTime(z, t), h, m))
\* a setDate that leaves the date alone
plusNoDays(z, t, n) == t

\* date.setDate(date.getDate() + n)
plusDays(z, t, n) ==
  UTC(z, setDate(LocalTime(z, t), getDate(LocalTime(z, t)) + n))
\* date.setDate(n)
onDate(z, t, n) == UTC(z, setDate(LocalTime(z, t), n))
\* date.setMonth(date.getMonth() + 1)
plusMonth(z, t) ==
  UTC(z, setMonth(LocalTime(z, t), getMonth(LocalTime(z, t)) + 1))

\* the zone the handlers below are run in
HomeZone == "fixed"

-----------------------------------------------------------------------------
(* calculateNextWakeTime (index.ts 23-99) in zone z.  t1 is the instant    *)
(* read by the first `new Date()' (now), t2 the one read by the second     *)
(* (nextWakeTime).                                                         *)

\* a weekend that is not skipped
noSkip(z, t) == t

RECURSIVE SkipWeekend(_, _)
\* index.ts 45-47
SkipWeekend(z, t) ==
  IF getDay(LocalTime(z, t)) = 0 \/ getDay(LocalTime(z, t)) = 6
  THEN SkipWeekend(z, plusDays(z, t, 1))
  ELSE t

RECURSIVE InsertSorted(_, _)
InsertSorted(x, s) ==
  IF s = <<>> THEN <<x>>
  ELSE IF x < Head(s) THEN <<x>> \o s
  ELSE <<Head(s)>> \o InsertSorted(x, Tail(s))

RECURSIVE SortNumbers(_)
\* [...daysOfWeek].sort((a, b) => a - b)
SortNumbers(s) ==
  IF s = <<>> THEN <<>> ELSE InsertSorted(Head(s), SortNumbers(Tail(s)))

\* sortedDays.findIndex((day) => day > currentDay); 0 stands for -1
FindIndexGreater(s, v) ==
  IF \E i \in 1..Len(s) : s[i] > v
  THEN CHOOSE i \in 1..Len(s) : s[i] > v /\ \A j \in 1..(i - 1) : ~(s[j] > v)
  ELSE 0

\* a candidate left at the instant of the clock
nowAsCandidate(z, p, t2) == t2

\* the candidate of index.ts 33-34: the day of t2 at the pattern's time
todayAtTime(z, p, t2) == withHours(z, t2, p.time[1], p.time[2])

\* an end date that only counts once it is passed
endedAfter(p, t1) == Has(p, "endDate") /\ p.endDate # Unset /\ t1 > p.endDate

\* index.ts 29: recurrencePattern.endDate && now.getTime() >= endDate
ended(p, t1) == Has(p, "endDate") /\ p.endDate # Unset /\ t1 >= p.endDate

\* a test for the missing list only
absentDays(p) == ~Has(p, "daysOfWeek")

\* index.ts 53-56: !daysOfWeek || daysOfWeek.length === 0
noDays(p) == ~Has(p, "daysOfWeek") \/ Len(p.daysOfWeek) = 0

calculateNextWakeTime(z, p, t1, t2) ==
  IF ~Has(p, "time") THEN Throw
  ELSE IF ended(p, t1) THEN Null
  ELSE
    LET c == todayAtTime(z, p, t2)
        type == IF Has(p, "type") THEN p.type ELSE "undefined"
    IN
    CASE type = "daily" ->
           IF c <= t1 THEN plusDays(z, c, 1) ELSE c
      [] type = "weekdays" ->
           SkipWeekend(z, plusDays(z, c, 1))
      [] type \in {"weekly", "custom"} ->
           IF noDays(p) THEN Null
           \* sortedDays[0] of an empty list is undefined: an invalid Date
           ELSE IF p.daysOfWeek = <<>> THEN NaN
           ELSE
             LET currentDay == getDay(LocalTime(z, t1))
                 sortedDays == SortNumbers(p.daysOfWeek)
                 nextDayIndex == FindIndexGreater(sortedDays, currentDay)
                 daysToAdd ==
                   IF nextDayIndex # 0
                   THEN sortedDays[nextDayIndex] - currentDay
                   ELSE 7 - currentDay + sortedDays[1]
                 moved == onDate(z, c, getDate(LocalTime(z, t1)) + daysToAdd)
             IN  IF getDay(LocalTime(z, moved)) = currentDay /\ moved <= t1
                 THEN plusDays(z, moved, 7)
                 ELSE moved
      [] type = "monthly" ->
           LET onDay ==
                 onDate(z, c, IF Has(p, "dayOfMonth") /\ p.dayOfMonth # Unset
                              THEN p.dayOfMonth ELSE 1)
           IN  IF onDay <= t1 THEN plusMonth(z, onDay) ELSE onDay
      [] OTHER -> Null

\* a test every value passes
alwaysTruthy(t) == TRUE

\* `if (nextWakeTime)': null, 0 and NaN are falsy
Truthy(t) == t # Null /\ t # 0 /\ t # NaN

-----------------------------------------------------------------------------
(* Scheduled items (DelayedTab) and the collections the model starts from. *)

Daily == [type |-> "daily", time |-> <<9, 0>>, daysOfWeek |-> <<>>,
          dayOfMonth |-> Unset, endDate |-> Unset]
\* every Monday
Mondays == [type |-> "weekly", time |-> <<9, 0>>, daysOfWeek |-> <<1>>,
            dayOfMonth |-> Unset, endDate |-> Unset]
\* a weekly rule whose end date has long passed: a dead rule
Ended == [type |-> "weekly", time |-> <<9, 0>>, daysOfWeek |-> <<1>>,
          dayOfMonth |-> Unset, endDate |-> 1]

\* the two wake times of the starting items: Wednesday 2024-01-03 and
\* Thursday 2024-01-04, 09:00
W1 == 2 * MinutesPerDay + 9 * 60
W2 == 3 * MinutesPerDay + 9 * 60
\* the clock starts on that Thursday at 06:00: W1 is overdue, W2 is ahead
StartNow == 3 * MinutesPerDay + 6 * 60

Tab(id, url, wakeTime, session, index, pattern) ==
  [id |-> id, url |-> url, title |-> id, wakeTime |-> wakeTime,
   windowSessionId |-> session, windowIndex |-> index,
   isRecurring |-> (pattern # NoPattern), recurrencePattern |-> pattern]

\* The starting collections are the subsequences, of at most MaxItems
\* items, of this list: five tabs of one window session (four waking at W1,
\* stored out of index order, one without index, two of equal index, one
\* without url; one waking at W2) and three solo tabs (a daily one, a plain
\* one, one without url under a dead rule).
Catalogue ==
  LET S1 == 9 IN
  << Tab(1, 1,     W1, S1,        1,       NoPattern),
     Tab(2, 2,     W1, S1,        NoIndex, Daily),
     Tab(3, 3,     W1, S1,        0,       Mondays),
     Tab(4, NoUrl, W1, S1,        0,       NoPattern),
     Tab(5, 5,     W2, S1,        0,       Daily),
     Tab(6, 6,     W2, NoSession, NoIndex, Daily),
     Tab(7, 7,     W1, NoSession, NoIndex, NoPattern),
     Tab(8, NoUrl, W1, NoSession, NoIndex, Ended) >>

FirstFresh == Len(Catalogue) + 2

\* rules that yield no occurrence: an empty daysOfWeek, an unknown type, a
\* custom rule without daysOfWeek (and Ended above)
EmptyDays == [type |-> "weekly", time |-> <<9, 0>>, daysOfWeek |-> <<>>]
Yearly == [type |-> "yearly", time |-> <<9, 0>>]
AbsentDays == [type |-> "custom", time |-> <<9, 0>>]

\* a rule without time
NoTime == [type |-> "daily"]

\* items under a rule without time, solo and in a window, next to items
\* under a live rule and plain items; the last one is not yet due
FaultCatalogue ==
  LET S1 == 9 IN
  << Tab(1, 1, W1, NoSession, NoIndex, NoTime),
     Tab(2, 2, W1, NoSession, NoIndex, Daily),
     Tab(3, 3, W1, NoSession, NoIndex, NoPattern),
     Tab(4, 4, W1, S1,        0,       NoTime),
     Tab(5, 5, W1, S1,        1,       Daily),
     Tab(6, 6, W2, NoSession, NoIndex, NoPattern) >>

\* items without url, solo (plain, under a daily rule, under a dead rule)
\* and in a window, next to items with a url; the last one is not yet due
NoUrlCatalogue ==
  LET S1 == 9 IN
  << Tab(1, NoUrl, W1, NoSession, NoIndex, Daily),
     Tab(2, 2,     W1, NoSession, NoIndex, NoPattern),
     Tab(3, NoUrl, W1, NoSession, NoIndex, NoPattern),
     Tab(4, NoUrl, W1, S1,        0,       NoPattern),
     Tab(5, 5,     W1, S1,        1,       Daily),
     Tab(6, NoUrl, W1, NoSession, NoIndex, Ended),
     Tab(7, 7,     W2, NoSession, NoIndex, Daily) >>

\* solo items (overdue, ahead under a daily rule, overdue under a rule
\* without time) and two groups of one window session, one overdue and one
\* ahead
LiveCatalogue ==
  LET S1 == 9 IN
  << Tab(1, 1, W1, NoSession, NoIndex, NoPattern),
     Tab(2, 2, W1, S1,        0,       NoPattern),
     Tab(3, 3, W2, S1,        0,       NoPattern),
     Tab(4, 4, W2, NoSession, NoIndex, Daily),
     Tab(5, 5, W1, NoSession, NoIndex, NoTime) >>

\* items under dead rules, solo and in a window, next to items under a live
\* rule; all of them overdue
DeadCatalogue ==
  LET S1 == 9 IN
  << Tab(1, 1, W1, NoSession, NoIndex, Ended),
     Tab(2, 2, W1, NoSession, NoIndex, EmptyDays),
     Tab(3, 3, W1, NoSession, NoIndex, Yearly),
     Tab(4, 4, W1, S1,        0,       Ended),
     Tab(5, 5, W1, S1,        1,       Daily),
     Tab(6, 6, W1, NoSession, NoIndex, Daily),
     Tab(7, 7, W1, S1,        2,       AbsentDays) >>

RECURSIVE SetToSeq(_)
\* the members of a set of numbers, ascending
SetToSeq(S) ==
  IF S = {} THEN <<>>
  ELSE LET m == CHOOSE x \in S : \A y \in S : x <= y
       IN  <<m>> \o SetToSeq(S \ {m})

\* the subsequences of 1..size items of a list of items
CollectionsOf(items, size) ==
  { [i \in 1..Cardinality(S) |-> items[SetToSeq(S)[i]]] :
      S \in { T \in SUBSET (1..Len(items)) :
                Cardinality(T) >= 1 /\ Cardinality(T) <= size } }

StartCollections(size) == CollectionsOf(Catalogue, size)

Ids(tabs) == { tabs[i].id : i \in 1..Len(tabs) }

\* normalizeDelayedTabs: the stored items are well formed, and kept as stored
normalizeDelayedTabs(tabs) == tabs

-----------------------------------------------------------------------------
(* The adapters' effects.                                                  *)

\* chrome.alarms.clear(`delayed-tab-${id}`)
clearAlarm(as, id) == { a \in as : a.id # id }
\* chrome.alarms.create(`delayed-tab-${id}`, {when}): replaces a same-named one
createAlarm(as, id, when) == clearAlarm(as, id) \cup {[id |-> id, when |-> when]}

RECURSIVE createAlarms(_, _)
createAlarms(as, tabs) ==
  IF tabs = <<>> THEN as
  ELSE createAlarms(createAlarm(as, Head(tabs).id, Head(tabs).wakeTime),
                    Tail(tabs))

\* one call of an adapter, as an invocation's log keeps it: trig is the id of
\* the trigger item being processed (0 outside wakeTabsInternal)
Call(op, trig, ids, urls, when) ==
  [op |-> op, trig |-> trig, ids |-> ids, urls |-> urls, when |-> when]

-----------------------------------------------------------------------------
(* The pure parts of the wake orchestration.                               *)

\* a group taken by window session alone
windowTabsOfSession(tab, normalizedTabs) ==
  SelectSeq(normalizedTabs,
            LAMBDA item : item.windowSessionId = tab.windowSessionId)

\* index.ts 233-237: the members of the trigger item's window group
windowTabsOf(tab, normalizedTabs) ==
  SelectSeq(normalizedTabs,
            LAMBDA item : /\ item.windowSessionId = tab.windowSessionId
                          /\ item.wakeTime = tab.wakeTime)

\* index.ts 151-152: typeof windowIndex === 'number' ? windowIndex : 0
indexOf(tab) == IF tab.windowIndex # NoIndex THEN tab.windowIndex ELSE 0

RECURSIVE insertTab(_, _)
\* x goes before the first element the comparator puts after it
insertTab(x, s) ==
  IF s = <<>> THEN <<x>>
  ELSE IF indexOf(Head(s)) - indexOf(x) > 0 THEN <<x>> \o s
  ELSE <<Head(s)>> \o insertTab(x, Tail(s))

\* the tabs left in collection order
unsortedTabs(s) == s

RECURSIVE sortTabs(_)
\* index.ts 150-154: [...windowTabs].sort(by index): a stable sort
sortTabs(s) ==
  IF s = <<>> THEN <<>>
  ELSE insertTab(s[Len(s)], sortTabs(SubSeq(s, 1, Len(s) - 1)))

\* the tabs that have a url
withUrl(tabs) == SelectSeq(tabs, LAMBDA tab : tab.url # NoUrl)

\* index.ts 156-158: the urls of the sorted tabs, the falsy ones dropped
urlsOf(sortedTabs) ==
  [i \in 1..Len(withUrl(sortedTabs)) |-> withUrl(sortedTabs)[i].url]

idsOf(tabs) == [i \in 1..Len(tabs) |-> tabs[i].id]

\* a filter that lets nothing through
removeAllTabs(allTabs, ids) == <<>>

\* index.ts 118, 179-181: allTabs.filter(tab => not one of ids)
removeTabs(allTabs, ids) == SelectSeq(allTabs, LAMBDA tab : tab.id \notin ids)

\* index.ts 183-185
recurringTabsOf(sortedTabs) ==
  SelectSeq(sortedTabs,
            LAMBDA tab : tab.isRecurring /\ tab.recurrencePattern # NoPattern)

\* a continuation that keeps the id of the item it continues
soloContinuationSameId(tab, newTabId, nextWakeTime) ==
  [tab EXCEPT !.wakeTime = nextWakeTime]

\* index.ts 125-129
soloContinuation(tab, newTabId, nextWakeTime) ==
  [tab EXCEPT !.id = newTabId, !.wakeTime = nextWakeTime]

\* a continuation that takes the id of its window session for its own
windowContinuationSessionAsId(tab, newTabId, nextWakeTime, newWindowSessionId) ==
  [tab EXCEPT !.id = newWindowSessionId, !.wakeTime = nextWakeTime,
              !.windowSessionId = newWindowSessionId]

\* index.ts 200-205
windowContinuation(tab, newTabId, nextWakeTime, newWindowSessionId) ==
  [tab EXCEPT !.id = newTabId, !.wakeTime = nextWakeTime,
              !.windowSessionId =
                 IF tab.windowSessionId # NoSession
                 THEN newWindowSessionId ELSE tab.windowSessionId]

\* the comparison of 285 turned round
notYetDueTabs(normalizedTabs, t) ==
  SelectSeq(normalizedTabs, LAMBDA tab : tab.wakeTime >= t)

\* index.ts 284-286
overdueTabs(normalizedTabs, t) ==
  SelectSeq(normalizedTabs, LAMBDA tab : tab.wakeTime <= t)

\* the comparison of 294 turned round
pastTabs(updatedTabs, t) ==
  SelectSeq(updatedTabs, LAMBDA tab : tab.wakeTime < t)

\* index.ts 293-294
futureTabs(updatedTabs, t) ==
  SelectSeq(updatedTabs, LAMBDA tab : tab.wakeTime > t)

\* a request that takes every stored item
everyTab(normalizedTabs, tabIds) == normalizedTabs

\* index.ts 316-318
requestedTabs(normalizedTabs, tabIds) ==
  SelectSeq(normalizedTabs, LAMBDA tab : tab.id \in tabIds)

\* a find that settles for the first item when no id matches
findTabOrFirst(normalizedTabs, tabId) ==
  LET found == SelectSeq(normalizedTabs, LAMBDA tab : tab.id = tabId)
  IN  IF found # <<>> THEN <<Head(found)>>
      ELSE IF normalizedTabs = <<>> THEN <<>>
      ELSE <<Head(normalizedTabs)>>

\* index.ts 257-259: find; the empty sequence stands for undefined
findTab(normalizedTabs, tabId) ==
  LET found == SelectSeq(normalizedTabs, LAMBDA tab : tab.id = tabId)
  IN  IF found = <<>> THEN <<>> ELSE <<Head(found)>>


-----------------------------------------------------------------------------
(* The handler invocations.  Each listener is an async function: it runs   *)
(* to its next adapter call, the call takes effect, and the function       *)
(* resumes later.  pc names the adapter call an invocation is waiting at;  *)
(* one step is that call's effect followed by the synchronous code up to   *)
(* the next call.                                                          *)

Procs == 1..MaxProcs

IdleProc ==
  [kind |-> "idle", pc |-> "idle", tabId |-> 0, tabIds |-> {},
   normalizedTabs |-> <<>>, tabsToWake |-> <<>>, i |-> 0,
   updatedTabs |-> <<>>, processedWindowSessions |-> {}, startNow |-> 0,
   sortedTabs |-> <<>>, j |-> 0, recurringTabs |-> <<>>, k |-> 0,
   newWindowSessionId |-> NoSession, newTabId |-> 0, nextWakeTime |-> 0,
   calcNow |-> 0, log |-> <<>>, readFrom |-> 0, response |-> "none",
   error |-> "none"]

Running(pr) == pr.pc \notin {"idle", "done"}

\* the trigger item an invocation is processing
CurrentTab(pr) == pr.tabsToWake[pr.i]
\* whether it is inside handleWindowWake
InWindow(pr) == pr.sortedTabs # <<>>

Logged(pr, op, ids, urls, when) ==
  [pr EXCEPT !.log = Append(@, Call(op, CurrentTab(pr).id, ids, urls, when))]

\* a catch block that answers {success: true}
swallowed(pr, error) ==
  [pr EXCEPT !.pc = "done", !.error = error,
             !.response = IF pr.kind = "message" THEN "success" ELSE "none"]

\* the catch block of a listener (index.ts 269-274, 301-306, 325-327): the
\* invocation ends there; a request is answered {success: false}
caught(pr, error) ==
  [pr EXCEPT !.pc = "done", !.error = error,
             !.response = IF pr.kind = "message" THEN "failure" ELSE "none"]

\* a url test every item passes
anyUrl(tab) == TRUE

\* index.ts 105: if (delayedTab.url)
hasUrl(tab) == tab.url # NoUrl

\* a session test that never skips
neverProcessed(tab, processedWindowSessions) == FALSE

\* index.ts 227: processedWindowSessions.has(tab.windowSessionId)
alreadyProcessed(tab, processedWindowSessions) ==
  tab.windowSessionId \in processedWindowSessions

RECURSIVE wakeLoop(_)
\* wakeTabsInternal's loop (index.ts 225-243) from trigger pr.i on, and the
\* entry of handleSingleTabWake (105) or handleWindowWake (146-160), up to
\* the first adapter call
wakeLoop(pr) ==
  IF pr.i > Len(pr.tabsToWake) THEN [pr EXCEPT !.pc = "storage.set"]
  ELSE
    LET tab == pr.tabsToWake[pr.i] IN
    IF tab.windowSessionId # NoSession
    THEN
      IF alreadyProcessed(tab, pr.processedWindowSessions)
      THEN wakeLoop([pr EXCEPT !.i = @ + 1])
      ELSE
        LET windowTabs == windowTabsOf(tab, pr.normalizedTabs)
            seen == [pr EXCEPT !.processedWindowSessions =
                                  @ \cup {tab.windowSessionId}]
        IN  IF Len(windowTabs) = 0
            THEN wakeLoop([seen EXCEPT !.i = @ + 1])
            ELSE [seen EXCEPT
                    !.sortedTabs = sortTabs(windowTabs),
                    !.pc = IF Len(urlsOf(sortTabs(windowTabs))) > 0
                           THEN "windows.create"
                           ELSE "notifications.create"]
    ELSE [pr EXCEPT !.pc = IF hasUrl(tab) THEN "tabs.create"
                           ELSE "notifications.create"]

\* the return of handleSingleTabWake / handleWindowWake into the loop
nextTrigger(pr) ==
  wakeLoop([pr EXCEPT !.i = @ + 1, !.sortedTabs = <<>>, !.j = 0,
                      !.recurringTabs = <<>>, !.k = 0,
                      !.newWindowSessionId = NoSession,
                      !.newTabId = 0, !.nextWakeTime = 0, !.calcNow = 0])

\* handleSingleTabWake after the alarm is cleared (index.ts 118-131), at
\* instant t, with nid the next fresh id
afterSoloClear(pr, nid, t) ==
  LET tab == CurrentTab(pr)
      removed == [pr EXCEPT !.updatedTabs = removeTabs(@, {tab.id})]
      nextWakeTime ==
        IF tab.isRecurring /\ tab.recurrencePattern # NoPattern
        THEN calculateNextWakeTime(HomeZone, tab.recurrencePattern, t, t)
        ELSE Null
  IN  IF nextWakeTime = Throw
      THEN [pr |-> caught(removed, "TypeError"), nid |-> nid]
      ELSE IF Truthy(nextWakeTime)
      THEN [pr |-> [removed EXCEPT
                      !.updatedTabs =
                         Append(@, soloContinuation(tab, nid, nextWakeTime)),
                      !.newTabId = nid,
                      !.nextWakeTime = nextWakeTime,
                      !.calcNow = t,
                      !.pc = "alarms.create"],
            nid |-> nid + 1]
      ELSE [pr |-> nextTrigger(removed), nid |-> nid]

RECURSIVE windowRecur(_, _, _)
\* handleWindowWake's loop over recurringTabs (index.ts 190-208) from
\* member pr.k on, up to the next alarms.create
windowRecur(pr, nid, t) ==
  IF pr.k > Len(pr.recurringTabs)
  THEN [pr |-> nextTrigger(pr), nid |-> nid]
  ELSE
    LET tab == pr.recurringTabs[pr.k]
        nextWakeTime ==
          IF tab.recurrencePattern # NoPattern
          THEN calculateNextWakeTime(HomeZone, tab.recurrencePattern, t, t)
          ELSE Null
    IN  IF nextWakeTime = Throw
        THEN [pr |-> caught(pr, "TypeError"), nid |-> nid]
        ELSE IF ~Truthy(nextWakeTime)
        THEN windowRecur([pr EXCEPT !.k = @ + 1], nid, t)
        ELSE [pr |-> [pr EXCEPT
                        !.updatedTabs =
                           Append(@, windowContinuation(tab, nid, nextWakeTime,
                                                        pr.newWindowSessionId)),
                        !.newTabId = nid,
                        !.nextWakeTime = nextWakeTime,
                        !.calcNow = t,
                        !.pc = "alarms.create"],
              nid |-> nid + 1]

\* handleWindowWake after the last alarm is cleared (index.ts 179-188)
afterWindowClears(pr, nid, t) ==
  LET removed == [pr EXCEPT !.updatedTabs =
                               removeTabs(@, Ids(pr.sortedTabs))]
      recurringTabs == recurringTabsOf(pr.sortedTabs)
  IN  IF Len(recurringTabs) > 0
      THEN windowRecur([removed EXCEPT !.recurringTabs = recurringTabs,
                                       !.k = 1,
                                       !.newWindowSessionId = nid],
                       nid + 1, t)
      ELSE [pr |-> nextTrigger(removed), nid |-> nid]

\* the listener's code after storage.get resolves with `stored' at instant t
\* (index.ts 255-265, 281-288, 314-320)
afterGet(pr, stored, t) ==
  LET normalizedTabs == normalizeDelayedTabs(stored)
      tabsToWake ==
        CASE pr.kind = "alarm" -> findTab(normalizedTabs, pr.tabId)
          [] pr.kind = "startup" -> overdueTabs(normalizedTabs, t)
          [] OTHER -> requestedTabs(normalizedTabs, pr.tabIds)
      read == [pr EXCEPT !.normalizedTabs = normalizedTabs,
                         !.tabsToWake = tabsToWake,
                         !.updatedTabs = normalizedTabs,
                         !.startNow = IF pr.kind = "startup" THEN t ELSE 0,
                         !.i = 1]
  IN  IF pr.kind = "alarm" /\ tabsToWake = <<>>
      THEN [read EXCEPT !.pc = "done"]
      ELSE wakeLoop(read)

-----------------------------------------------------------------------------
(* The triggers.                                                           *)

\* a new invocation takes the lowest free slot; when the triggers arrive one
\* at a time, no other invocation is around
CanStart(p) ==
  /\ procs[p].pc = "idle"
  /\ \A q \in Procs : q < p => procs[q].pc # "idle"
  /\ serial => \A q \in Procs : procs[q].pc = "idle"
  /\ serial => popup.pc \in {"closed", "idle"}

Started(kind, tabId, tabIds) ==
  [IdleProc EXCEPT !.kind = kind, !.pc = "storage.get",
                   !.tabId = tabId, !.tabIds = tabIds]

\* chrome.alarms.onAlarm (index.ts 248-251): a due alarm fires, once
AlarmFires(p) ==
  /\ CanStart(p)
  /\ \E a \in alarms :
       /\ a.when <= now
       /\ alarms' = alarms \ {a}
       /\ procs' = [procs EXCEPT ![p] = Started("alarm", a.id, {})]
  /\ UNCHANGED <<store, now, nextId, writer, known, serial, calc, popup>>

\* chrome.runtime.onMessage (index.ts 309-311, 330): 'wake-tabs' for some ids
WakeTabsRequest(p) ==
  /\ CanStart(p)
  /\ \E tabIds \in (SUBSET known) \ {{}} :
       procs' = [procs EXCEPT ![p] = Started("message", 0, tabIds)]
  /\ UNCHANGED <<store, alarms, now, nextId, writer, known, serial, calc, popup>>

\* chrome.runtime.onStartup (index.ts 278-280)
Startup(p) ==
  /\ CanStart(p)
  /\ procs' = [procs EXCEPT ![p] = Started("startup", 0, {})]
  /\ UNCHANGED <<store, alarms, now, nextId, writer, known, serial, calc, popup>>

-----------------------------------------------------------------------------
(* The adapter calls.                                                      *)

FreshLimit == FirstFresh + MaxFresh

\* chrome.storage.local.get (index.ts 253-254, 280, 313)
StorageGet(p) ==
  /\ procs[p].pc = "storage.get"
  /\ procs' = [procs EXCEPT
                 ![p] = afterGet([procs[p] EXCEPT !.readFrom = writer],
                                 store, now)]
  /\ UNCHANGED <<store, alarms, now, nextId, writer, known, serial, calc, popup>>

\* chrome.tabs.create (index.ts 106)
TabsCreate(p) ==
  /\ procs[p].pc = "tabs.create"
  /\ procs' = [procs EXCEPT
                 ![p] = [Logged(procs[p], "openTab", <<CurrentTab(procs[p]).id>>,
                                <<CurrentTab(procs[p]).url>>, 0)
                           EXCEPT !.pc = "notifications.create"]]
  /\ UNCHANGED <<store, alarms, now, nextId, writer, known, serial, calc, popup>>

\* chrome.windows.create (index.ts 161)
WindowsCreate(p) ==
  /\ procs[p].pc = "windows.create"
  /\ procs' = [procs EXCEPT
                 ![p] = [Logged(procs[p], "openWindow",
                                idsOf(withUrl(procs[p].sortedTabs)),
                                urlsOf(procs[p].sortedTabs), 0)
                           EXCEPT !.pc = "notifications.create"]]
  /\ UNCHANGED <<store, alarms, now, nextId, writer, known, serial, calc, popup>>

\* chrome.notifications.create (index.ts 109-114, 166-173)
NotificationsCreate(p) ==
  /\ procs[p].pc = "notifications.create"
  /\ procs' = [procs EXCEPT
                 ![p] = [Logged(procs[p], "notify",
                                IF InWindow(procs[p])
                                THEN idsOf(procs[p].sortedTabs)
                                ELSE <<CurrentTab(procs[p]).id>>,
                                <<>>, 0)
                           EXCEPT !.pc = "alarms.clear", !.j = 1]]
  /\ UNCHANGED <<store, alarms, now, nextId, writer, known, serial, calc, popup>>

\* chrome.alarms.clear (index.ts 116, 175-177)
AlarmsClear(p) ==
  /\ procs[p].pc = "alarms.clear"
  /\ LET pr == procs[p]
         id == IF InWindow(pr) THEN pr.sortedTabs[pr.j].id
               ELSE CurrentTab(pr).id
         cleared == Logged(pr, "clear", <<id>>, <<>>, 0)
         after ==
           IF ~InWindow(pr) THEN afterSoloClear(cleared, nextId, now)
           ELSE IF pr.j < Len(pr.sortedTabs)
           THEN [pr |-> [cleared EXCEPT !.j = @ + 1], nid |-> nextId]
           ELSE afterWindowClears(cleared, nextId, now)
     IN  /\ after.nid <= FreshLimit
         /\ alarms' = clearAlarm(alarms, id)
         /\ nextId' = after.nid
         /\ procs' = [procs EXCEPT ![p] = after.pr]
  /\ UNCHANGED <<store, now, writer, known, serial, calc, popup>>

\* chrome.alarms.create for a continuation (index.ts 133-135, 209-211)
AlarmsCreate(p) ==
  /\ procs[p].pc = "alarms.create"
  /\ LET pr == procs[p]
         created == Logged(pr, "create", <<pr.newTabId>>, <<>>,
                           pr.nextWakeTime)
         after ==
           IF ~InWindow(pr)
           THEN [pr |-> nextTrigger(created), nid |-> nextId]
           ELSE windowRecur([created EXCEPT !.k = @ + 1], nextId, now)
     IN  /\ after.nid <= FreshLimit
         /\ alarms' = createAlarm(alarms, pr.newTabId, pr.nextWakeTime)
         /\ nextId' = after.nid
         /\ procs' = [procs EXCEPT ![p] = after.pr]
  /\ UNCHANGED <<store, now, writer, known, serial, calc, popup>>

\* chrome.storage.local.set (index.ts 267, 290, 322) and, for a request,
\* sendResponse({success: true}) (324)
StorageSet(p) ==
  /\ procs[p].pc = "storage.set"
  /\ store' = procs[p].updatedTabs
  /\ writer' = p
  /\ procs' = [procs EXCEPT
                 ![p] = [@ EXCEPT
                           !.pc = IF procs[p].kind = "startup"
                                  THEN "alarms.rearm" ELSE "done",
                           !.response = IF procs[p].kind = "message"
                                        THEN "success" ELSE "none"]]
  /\ UNCHANGED <<alarms, now, nextId, known, serial, calc, popup>>

\* the alarms.create calls of Promise.all at startup (index.ts 292-300)
AlarmsRearm(p) ==
  /\ procs[p].pc = "alarms.rearm"
  /\ LET pr == procs[p]
         rearmed == futureTabs(pr.updatedTabs, pr.startNow)
     IN  /\ alarms' = createAlarms(alarms, rearmed)
         /\ procs' = [procs EXCEPT
                        ![p] = [pr EXCEPT
                                  !.pc = "done",
                                  !.log = @ \o
                                    [n \in 1..Len(rearmed) |->
                                       Call("create", 0, <<rearmed[n].id>>,
                                            <<>>, rearmed[n].wakeTime)]]]
  /\ UNCHANGED <<store, now, nextId, writer, known, serial, calc, popup>>

-----------------------------------------------------------------------------
(* Adapter calls that fail: the promise is rejected, the await throws and  *)
(* the listener's catch block is next.                                     *)

\* chrome.notifications.create rejects (index.ts 109-114, 166-173)
NotificationsCreateFails(p) ==
  /\ procs[p].pc = "notifications.create"
  /\ procs' = [procs EXCEPT ![p] = caught(@, "notifications.create")]
  /\ UNCHANGED <<store, alarms, now, nextId, writer, known, serial, calc, popup>>

\* chrome.storage.local.set rejects, e.g. over quota (index.ts 267, 290, 322)
StorageSetFails(p) ==
  /\ procs[p].pc = "storage.set"
  /\ procs' = [procs EXCEPT ![p] = caught(@, "storage.set")]
  /\ UNCHANGED <<store, alarms, now, nextId, writer, known, serial, calc, popup>>

-----------------------------------------------------------------------------
(* The Sleeping Tabs view of the popup (ManageTabsView.tsx).  It keeps a   *)
(* list of the items, delayedTabs, read from the store when the view       *)
(* opens; removing and rescheduling write a collection made from that      *)
(* list.                                                                   *)

ClosedPopup ==
  [pc |-> "closed", op |-> "none", delayedTabs |-> <<>>, tabIds |-> <<>>,
   updatedTabs |-> <<>>, newWakeTime |-> 0, replaced |-> <<>>, log |-> <<>>,
   editError |-> "null"]

\* the store was last written by the popup
PopupWriter == MaxProcs + 1

RECURSIVE insertByWakeTime(_, _)
insertByWakeTime(x, s) ==
  IF s = <<>> THEN <<x>>
  ELSE IF Head(s).wakeTime - x.wakeTime > 0 THEN <<x>> \o s
  ELSE <<Head(s)>> \o insertByWakeTime(x, Tail(s))

RECURSIVE sortByWakeTime(_)
\* ManageTabsView.tsx 37-39: [...normalizedTabs].sort(by wakeTime), stable
sortByWakeTime(s) ==
  IF s = <<>> THEN <<>>
  ELSE insertByWakeTime(s[Len(s)], sortByWakeTime(SubSeq(s, 1, Len(s) - 1)))

\* ManageTabsView.tsx 55-57: the key of the group a tab is listed under
groupId(tab) ==
  IF tab.windowSessionId # NoSession
  THEN <<"window", tab.windowSessionId, tab.wakeTime>>
  ELSE <<"tab", tab.id, 0>>

\* ManageTabsView.tsx 51-78: the groups listed, by their keys
tabGroups(tabs) == { groupId(tabs[n]) : n \in 1..Len(tabs) }

\* the tabs of a listed group, in the order of the list
groupTabs(tabs, g) == SelectSeq(tabs, LAMBDA tab : groupId(tab) = g)

\* the tabs of several listed groups
selectedTabs(tabs, G) == SelectSeq(tabs, LAMBDA tab : groupId(tab) \in G)

\* ManageTabsView.tsx 293-295
rescheduled(tabs, ids, newWakeTime) ==
  [n \in 1..Len(tabs) |->
     IF tabs[n].id \in ids THEN [tabs[n] EXCEPT !.wakeTime = newWakeTime]
     ELSE tabs[n]]

\* the wake time the user types into the schedule editor: Thursday
\* 2024-01-04 09:00
NewWakeTimes == {W2}

\* what the schedule editor can hold (editingWakeTime): nothing, a text
\* that is no date, or the reading "YYYY-MM-DDTHH:mm" of a wall clock
NoText == [kind |-> "empty", wall |-> 0]
NotADate == [kind |-> "text", wall |-> 0]
\* formatDateTimeLocal (ManageTabsView.tsx 93-101) of an instant
formatDateTimeLocal(timestamp) ==
  [kind |-> "wall", wall |-> LocalTime(HomeZone, timestamp)]
\* the readings typed: the wake time of yesterday's items, the present
\* minute, and the wake times ahead
EditingWakeTimes ==
  {NoText, NotADate}
    \cup { formatDateTimeLocal(t) : t \in {W1, StartNow} \cup NewWakeTimes }

\* new Date(editingWakeTime).getTime() (ManageTabsView.tsx 283)
parseDateTimeLocal(editingWakeTime) ==
  IF editingWakeTime.kind = "wall" THEN UTC(HomeZone, editingWakeTime.wall)
  ELSE NaN

\* a check that turns down an empty editor only
invalidIfEmpty(editingWakeTime, dateNow) == editingWakeTime.kind = "empty"

\* ManageTabsView.tsx 278 and 284: the editor is empty, or holds no instant,
\* or an instant that is not ahead of Date.now()
invalidWakeTime(editingWakeTime, dateNow) ==
  \/ editingWakeTime.kind = "empty"
  \/ parseDateTimeLocal(editingWakeTime) = NaN
  \/ parseDateTimeLocal(editingWakeTime) <= dateNow

\* the view is idle and, when operations come one at a time, so is the
\* background
PopupFree ==
  /\ popup.pc = "idle"
  /\ popup.op = "none"
  /\ serial => \A q \in Procs : ~Running(procs[q])

\* the view takes up an operation that writes updatedTabs to the store
PopupStarts(op, tabs, updatedTabs, newWakeTime) ==
  popup' = [popup EXCEPT !.pc = "storage.set", !.op = op,
                         !.tabIds = idsOf(tabs),
                         !.updatedTabs = updatedTabs,
                         !.newWakeTime = newWakeTime,
                         !.replaced = <<>>, !.log = <<>>]

\* the view opens: loadDelayedTabs (ManageTabsView.tsx 30-49)
PopupLoad ==
  /\ popup.pc = "closed"
  /\ serial => \A q \in Procs : ~Running(procs[q])
  /\ popup' = [ClosedPopup EXCEPT
                 !.pc = "idle",
                 !.delayedTabs = sortByWakeTime(normalizeDelayedTabs(store))]
  /\ UNCHANGED <<store, alarms, now, nextId, procs, writer, known, serial, calc>>

\* the popup is closed: the state of the view is gone
PopupClose ==
  /\ popup.pc = "idle"
  /\ popup.op = "none"
  /\ popup' = ClosedPopup
  /\ UNCHANGED <<store, alarms, now, nextId, procs, writer, known, serial, calc>>

\* what the view kept of a finished operation is forgotten
PopupSettles ==
  /\ popup.pc = "idle"
  /\ popup.op # "none"
  /\ popup' = [ClosedPopup EXCEPT !.pc = "idle",
                                  !.delayedTabs = popup.delayedTabs]
  /\ UNCHANGED <<store, alarms, now, nextId, procs, writer, known, serial, calc>>

\* removeTab (ManageTabsView.tsx 146-149), offered for the tabs of a group
\* of several (591)
RemoveTab ==
  /\ PopupFree
  /\ \E n \in 1..Len(popup.delayedTabs) :
       LET tab == popup.delayedTabs[n] IN
       /\ Len(groupTabs(popup.delayedTabs, groupId(tab))) > 1
       /\ PopupStarts("remove", <<tab>>,
                      removeTabs(popup.delayedTabs, {tab.id}), 0)
  /\ UNCHANGED <<store, alarms, now, nextId, procs, writer, known, serial, calc>>

\* removeGroup (ManageTabsView.tsx 236-241)
RemoveGroup ==
  /\ PopupFree
  /\ \E g \in tabGroups(popup.delayedTabs) :
       LET tabs == groupTabs(popup.delayedTabs, g) IN
       PopupStarts("remove", tabs,
                   removeTabs(popup.delayedTabs, Ids(tabs)), 0)
  /\ UNCHANGED <<store, alarms, now, nextId, procs, writer, known, serial, calc>>

\* removeSelectedTabs (ManageTabsView.tsx 211-221), offered when some group
\* is selected (435)
RemoveSelectedTabs ==
  /\ PopupFree
  /\ \E G \in (SUBSET tabGroups(popup.delayedTabs)) \ {{}} :
       LET tabs == selectedTabs(popup.delayedTabs, G) IN
       PopupStarts("remove", tabs,
                   removeTabs(popup.delayedTabs, Ids(tabs)), 0)
  /\ UNCHANGED <<store, alarms, now, nextId, procs, writer, known, serial, calc>>

\* saveGroupSchedule (ManageTabsView.tsx 267-297) for a listed group: the
\* edit is turned down with an edit error (278-287), or the collection made
\* from the list is handed to the store
SaveGroupSchedule ==
  /\ PopupFree
  /\ \E g \in tabGroups(popup.delayedTabs),
        editingWakeTime \in EditingWakeTimes :
       LET tabs == groupTabs(popup.delayedTabs, g)
           newWakeTime == parseDateTimeLocal(editingWakeTime)
       IN  IF invalidWakeTime(editingWakeTime, now)
           THEN popup' = [popup EXCEPT !.op = "rejected",
                                       !.newWakeTime = newWakeTime,
                                       !.editError = "invalidWakeTime"]
           ELSE PopupStarts("save", tabs,
                            rescheduled(popup.delayedTabs, Ids(tabs),
                                        newWakeTime),
                            newWakeTime)
  /\ UNCHANGED <<store, alarms, now, nextId, procs, writer, known, serial, calc>>

\* chrome.storage.local.set (ManageTabsView.tsx 149, 221, 241, 297)
PopupStorageSet ==
  /\ popup.pc = "storage.set"
  /\ store' = popup.updatedTabs
  /\ writer' = PopupWriter
  /\ popup' = [popup EXCEPT !.pc = "alarms.clear", !.replaced = store]
  /\ UNCHANGED <<alarms, now, nextId, procs, known, serial, calc>>

RECURSIVE clearAlarms(_, _)
clearAlarms(as, ids) ==
  IF ids = <<>> THEN as ELSE clearAlarms(clearAlarm(as, Head(ids)), Tail(ids))

\* the chrome.alarms.clear calls (ManageTabsView.tsx 150, 223-227, 243-245,
\* 299-301), and the code that follows them: the list of the view is
\* replaced (151, 229, 247, 307) and, in a reschedule, the alarms.create
\* calls are made (303-305)
PopupAlarmsClear ==
  /\ popup.pc = "alarms.clear"
  /\ alarms' = clearAlarms(alarms, popup.tabIds)
  /\ popup' = [popup EXCEPT
                 !.pc = IF popup.op = "save" THEN "alarms.create" ELSE "idle",
                 !.delayedTabs = popup.updatedTabs,
                 !.log = @ \o [n \in 1..Len(popup.tabIds) |->
                                 Call("clear", 0, <<popup.tabIds[n]>>, <<>>, 0)]]
  /\ UNCHANGED <<store, now, nextId, procs, writer, known, serial, calc>>

\* the effect of the chrome.alarms.create calls of a reschedule
\* (ManageTabsView.tsx 303-305)
PopupAlarmsCreate ==
  /\ popup.pc = "alarms.create"
  /\ alarms' = createAlarms(alarms,
                 [n \in 1..Len(popup.tabIds) |->
                    [id |-> popup.tabIds[n], wakeTime |-> popup.newWakeTime]])
  /\ popup' = [popup EXCEPT
                 !.pc = "idle",
                 !.log = @ \o [n \in 1..Len(popup.tabIds) |->
                                 Call("create", 0, <<popup.tabIds[n]>>, <<>>,
                                      popup.newWakeTime)]]
  /\ UNCHANGED <<store, now, nextId, procs, writer, known, serial, calc>>

-----------------------------------------------------------------------------
(* The environment.                                                        *)

\* a day passes
Tick ==
  /\ now < StartNow + MaxTicks * MinutesPerDay
  /\ now' = now + MinutesPerDay
  /\ UNCHANGED <<store, alarms, nextId, procs, writer, known, serial, calc, popup>>

\* the settled invocations are forgotten
Quiesce ==
  /\ \A p \in Procs : ~Running(procs[p])
  /\ \E p \in Procs : procs[p].pc = "done"
  /\ procs' = [p \in Procs |-> IdleProc]
  /\ writer' = 0
  /\ UNCHANGED <<store, alarms, now, nextId, known, serial, calc, popup>>

-----------------------------------------------------------------------------
(* The specifications.                                                     *)

\* no call of calculateNextWakeTime on its own
NoCalc ==
  [pc |-> "none", zone |-> HomeZone, pattern |-> NoPattern,
   t1 |-> 0, t2 |-> 0, result |-> Null]

\* the alarms the scheduling views armed, one per item
ArmedFor(tabs) == createAlarms({}, tabs)

InitFrom(collections, oneAtATime) ==
  /\ store \in collections
  /\ alarms \in {ArmedFor(store), {}}
  /\ now = StartNow
  /\ nextId = FirstFresh
  /\ procs = [p \in Procs |-> IdleProc]
  /\ writer = 0
  /\ known = Ids(store)
  /\ serial = oneAtATime
  /\ calc = NoCalc
  /\ popup = ClosedPopup

\* overlapping triggers are explored from the collections one item smaller
InitWith(oneAtATime, size) == InitFrom(StartCollections(size), oneAtATime)

Init == InitWith(FALSE, MaxItems - 1)
InitSeq == InitWith(TRUE, MaxItems)

Handlers ==
  \/ \E p \in Procs : AlarmFires(p)
  \/ \E p \in Procs : WakeTabsRequest(p)
  \/ \E p \in Procs : Startup(p)
  \/ \E p \in Procs : StorageGet(p)
  \/ \E p \in Procs : TabsCreate(p)
  \/ \E p \in Procs : WindowsCreate(p)
  \/ \E p \in Procs : NotificationsCreate(p)
  \/ \E p \in Procs : AlarmsClear(p)
  \/ \E p \in Procs : AlarmsCreate(p)
  \/ \E p \in Procs : StorageSet(p)
  \/ \E p \in Procs : AlarmsRearm(p)

Next == Handlers \/ Tick
NextSeq == Handlers \/ Tick \/ Quiesce

\* at most MaxProcs invocations, overlapping in every way
Spec == Init /\ [][Next]_vars
\* any number of invocations, one at a time
SpecSeq == InitSeq /\ [][NextSeq]_vars

\* one invocation at a time, with notifications and store writes that may
\* fail, from collections that may hold items under a rule without time
InitFault == InitFrom(CollectionsOf(FaultCatalogue, MaxItems), TRUE)
Faults ==
  \/ \E p \in Procs : NotificationsCreateFails(p)
  \/ \E p \in Procs : StorageSetFails(p)
NextFault == Handlers \/ Faults \/ Tick \/ Quiesce
SpecFault == InitFault /\ [][NextFault]_vars

\* items of one window session in two groups, one overdue under a daily
\* rule and one ahead, and solo items, one overdue under a daily rule and
\* one ahead
PopupCatalogue ==
  LET S1 == 9 IN
  << Tab(1, 1, W1, S1,        1,       Daily),
     Tab(2, 2, W1, S1,        0,       Daily),
     Tab(3, 3, W2, S1,        0,       NoPattern),
     Tab(4, 4, W1, NoSession, NoIndex, Daily),
     Tab(5, 5, W2, NoSession, NoIndex, NoPattern) >>

\* the background's handlers and the popup's operations, one at a time,
\* from the collections one item smaller, with the clock standing still
InitPopup == InitFrom(CollectionsOf(PopupCatalogue, MaxItems - 1), TRUE)
PopupSteps ==
  \/ PopupLoad
  \/ PopupClose
  \/ PopupSettles
  \/ RemoveTab
  \/ RemoveGroup
  \/ RemoveSelectedTabs
  \/ SaveGroupSchedule
  \/ PopupStorageSet
  \/ PopupAlarmsClear
  \/ PopupAlarmsCreate
NextPopup == Handlers \/ PopupSteps \/ Quiesce
SpecPopup == InitPopup /\ [][NextPopup]_vars

\* one invocation at a time, from collections of items with and without url
InitNoUrl == InitFrom(CollectionsOf(NoUrlCatalogue, MaxItems), TRUE)
SpecNoUrl == InitNoUrl /\ [][NextSeq]_vars

\* the same, from the states in which every stored item has its alarm
InitArmed == InitPopup /\ alarms = ArmedFor(store)
SpecArmed == InitArmed /\ [][NextPopup]_vars

\* a remove in the popup next to the background's invocations, their calls
\* interleaved in every way; the view stays as the remove left it
InitRace == InitFrom(CollectionsOf(PopupCatalogue, MaxItems - 1), FALSE)
RemoveSteps ==
  \/ PopupLoad
  \/ RemoveTab
  \/ RemoveGroup
  \/ RemoveSelectedTabs
  \/ PopupStorageSet
  \/ PopupAlarmsClear
NextRace == Handlers \/ RemoveSteps
SpecRace == InitRace /\ [][NextRace]_vars

\* the browser starts again and again, one start at a time; no alarm is
\* registered at first and no alarm ever fires.  Every call a listener
\* awaits returns, every start is followed by another, and the clock moves
\* on.
InitLive == InitFrom(CollectionsOf(LiveCatalogue, MaxItems), TRUE) /\ alarms = {}
LiveSteps ==
  \/ \E p \in Procs : Startup(p)
  \/ \E p \in Procs : StorageGet(p)
  \/ \E p \in Procs : TabsCreate(p)
  \/ \E p \in Procs : WindowsCreate(p)
  \/ \E p \in Procs : NotificationsCreate(p)
  \/ \E p \in Procs : AlarmsClear(p)
  \/ \E p \in Procs : AlarmsCreate(p)
  \/ \E p \in Procs : StorageSet(p)
  \/ \E p \in Procs : AlarmsRearm(p)
  \/ Quiesce
NextLive == LiveSteps \/ Tick
SpecLive ==
  InitLive /\ [][NextLive]_vars /\ WF_vars(LiveSteps) /\ WF_vars(Tick)

\* the same, from collections of items under dead rules
InitDead == InitFrom(CollectionsOf(DeadCatalogue, MaxItems), TRUE)
SpecDead == InitDead /\ [][NextSeq]_vars

-----------------------------------------------------------------------------
(* calculateNextWakeTime called on its own, on the rules and at the        *)
(* instants below.                                                         *)

\* the weeks of January 2024 whose days are all among the instants
CalcWeeks == 2

\* the days the clock is read on: the first weeks of the year, the days
\* around the ends of January, February (a leap year), April and December,
\* and the days around the two changes of the clock
CalcDays ==
  (0..(7 * CalcWeeks - 1))
    \cup { MonthStart(mi) - 1 : mi \in {1, 2, 4, 12} }
    \cup { MonthStart(2) - 2, MonthStart(2) + 8, MonthStart(2) + 9,
           MonthStart(10) + 1, MonthStart(10) + 2 }

\* the wall-clock readings of the clock
CalcClock == {0, 8 * 60 + 59, 9 * 60, 10 * 60, 14 * 60, 23 * 60 + 59}

\* the `time' of the rules ("09:00" split and converted to numbers)
CalcTimes == {<<0, 0>>, <<2, 30>>, <<9, 0>>, <<23, 59>>}
CalcDayLists == {<<>>, <<1>>, <<5, 1, 3>>, <<0, 6>>}
CalcDaysOfMonth == {Unset, 1, 15, 31}
\* the end date of the rules that have one: Monday 2024-01-08 09:00
CalcEnd == 7 * MinutesPerDay + 9 * 60

\* rules of every type, of an unknown type and of no type, with and
\* without daysOfWeek and dayOfMonth, and rules without time
OpenPatterns ==
  { [type |-> ty, time |-> tm] :
      ty \in {"daily", "weekdays", "yearly"}, tm \in CalcTimes }
    \cup { [type |-> ty, time |-> tm, daysOfWeek |-> ds] :
             ty \in {"weekly", "custom"}, tm \in CalcTimes, ds \in CalcDayLists }
    \cup { [type |-> ty, time |-> <<9, 0>>] : ty \in {"weekly", "custom"} }
    \cup { [type |-> "monthly", time |-> tm, dayOfMonth |-> dm] :
             tm \in CalcTimes, dm \in CalcDaysOfMonth }
    \cup { [type |-> "monthly", time |-> <<9, 0>>],
           [time |-> <<9, 0>>],
           [type |-> "daily"],
           [type |-> "weekly", daysOfWeek |-> <<1>>],
           [type |-> "weekly", time |-> <<8, 0>>, daysOfWeek |-> <<1, 3, 5>>] }

CalcPatterns ==
  OpenPatterns \cup { p @@ [endDate |-> CalcEnd] : p \in OpenPatterns }

InitCalc ==
  /\ store = <<>>
  /\ alarms = {}
  /\ nextId = FirstFresh
  /\ procs = [p \in Procs |-> IdleProc]
  /\ writer = 0
  /\ known = {}
  /\ serial = TRUE
  /\ popup = ClosedPopup
  /\ \E z \in Zones, d \in CalcDays, c \in CalcClock, p \in CalcPatterns :
       /\ now = UTC(z, d * MinutesPerDay + c)
       /\ calc = [NoCalc EXCEPT !.pc = "called", !.zone = z, !.pattern = p]

\* index.ts 26: const now = new Date()
CalcReadNow ==
  /\ calc.pc = "called"
  /\ calc' = [calc EXCEPT !.pc = "reading", !.t1 = now]
  /\ UNCHANGED <<store, alarms, now, nextId, procs, writer, known, serial, popup>>

\* the clock moves on to the next minute between the two reads
CalcTick ==
  /\ calc.pc = "reading"
  /\ now = calc.t1
  /\ now' = now + 1
  /\ UNCHANGED <<store, alarms, nextId, procs, writer, known, serial, calc, popup>>

\* index.ts 27-98: const nextWakeTime = new Date() and the rest of the call
CalcReturn ==
  /\ calc.pc = "reading"
  /\ LET result == calculateNextWakeTime(calc.zone, calc.pattern, calc.t1, now)
     IN  calc' = [calc EXCEPT
                    !.pc = IF result = Throw THEN "threw" ELSE "returned",
                    !.t2 = now,
                    !.result = result]
  /\ UNCHANGED <<store, alarms, now, nextId, procs, writer, known, serial, popup>>

NextCalc == CalcReadNow \/ CalcTick \/ CalcReturn

SpecCalc == InitCalc /\ [][NextCalc]_vars

-----------------------------------------------------------------------------
(* What the claims speak of.                                               *)

AllIds == 1..FreshLimit

\* wakeTabsInternal has returned
WakeFinished(pr) ==
  /\ pr.pc \in {"storage.set", "alarms.rearm", "done"}
  /\ pr.error \in {"none", "storage.set"}

\* the calls of a log that satisfy a test
Calls(log, Test(_)) == SelectSeq(log, Test)

Names(e, id) == \E n \in 1..Len(e.ids) : e.ids[n] = id

IsOpen(e) == e.op \in {"openTab", "openWindow"}

\* the openTab/openWindow calls of an invocation that include item id
Opens(pr, id) == Len(Calls(pr.log, LAMBDA e : IsOpen(e) /\ Names(e, id)))

RECURSIVE SumOpens(_, _)
SumOpens(P, id) ==
  IF P = {} THEN 0
  ELSE LET p == CHOOSE q \in P : TRUE
       IN  Opens(procs[p], id) + SumOpens(P \ {p}, id)

\* the openTab/openWindow calls of all invocations that include item id
TimesOpened(id) == SumOpens(Procs, id)

\* trigger n of an invocation is the first trigger of its window session
FirstOfSession(pr, n) ==
  /\ pr.tabsToWake[n].windowSessionId # NoSession
  /\ \A m \in 1..(n - 1) :
       pr.tabsToWake[m].windowSessionId # pr.tabsToWake[n].windowSessionId

\* the positions, in the collection an invocation read, of the window group
\* of a tab: the stored items of its windowSessionId and wakeTime
GroupOf(pr, tab) ==
  { m \in 1..Len(pr.normalizedTabs) :
      /\ pr.normalizedTabs[m].windowSessionId = tab.windowSessionId
      /\ pr.normalizedTabs[m].wakeTime = tab.wakeTime }

GroupIds(pr, tab) == { pr.normalizedTabs[m].id : m \in GroupOf(pr, tab) }

\* the calls of one kind made while the trigger was one of the ids G
CallsFor(pr, op, G) == Calls(pr.log, LAMBDA e : e.op = op /\ e.trig \in G)

SamePayload(a, b) ==
  /\ a.url = b.url /\ a.title = b.title
  /\ a.windowIndex = b.windowIndex
  /\ a.isRecurring = b.isRecurring
  /\ a.recurrencePattern = b.recurrencePattern

\* the rule of a tab yields an occurrence (the rules of the starting items
\* yield one at every instant of the model, or at none)
Yields(tab) ==
  /\ tab.isRecurring /\ tab.recurrencePattern # NoPattern
  /\ Truthy(calculateNextWakeTime(HomeZone, tab.recurrencePattern, now, now))

-----------------------------------------------------------------------------
(* C1.  Under any interleaving of the alarm, 'wake-tabs' and startup       *)
(* handlers, no item is included in more than one openTab/openWindow call. *)
(* The code does not keep this: two invocations that both read the         *)
(* collection before either writes it both open the item.                  *)
C1_MaterializedAtMostOnce == \A id \in AllIds : TimesOpened(id) <= 1

-----------------------------------------------------------------------------
(* C2.  Waking a window group of N stored items, whether the triggers      *)
(* hold one or several of its members, issues at most one openWindow, at   *)
(* most one notification and exactly N alarm clears, one per member, and   *)
(* the resulting collection holds none of the N ids.                       *)
C2_GroupWokenOnce ==
  \A p \in Procs :
    LET pr == procs[p] IN
    WakeFinished(pr) =>
      \A n \in 1..Len(pr.tabsToWake) :
        FirstOfSession(pr, n) =>
          LET G == GroupIds(pr, pr.tabsToWake[n]) IN
          /\ Len(CallsFor(pr, "openWindow", G)) <= 1
          /\ Len(CallsFor(pr, "notify", G)) <= 1
          /\ Len(CallsFor(pr, "clear", G)) = Cardinality(G)
          /\ \A id \in G :
               Len(Calls(pr.log, LAMBDA e : e.op = "clear" /\ Names(e, id))) = 1
          /\ G \cap Ids(pr.updatedTabs) = {}

\* a request naming two members of a group of three has been served
C2_Witness ==
  \E p \in Procs :
    LET pr == procs[p] IN
    /\ pr.pc = "done" /\ pr.kind = "message"
    /\ Len(pr.tabsToWake) = 2
    /\ FirstOfSession(pr, 1)
    /\ Cardinality(GroupIds(pr, pr.tabsToWake[1])) = 3
    /\ pr.tabsToWake[2].id \in GroupIds(pr, pr.tabsToWake[1])
    /\ Len(CallsFor(pr, "openWindow", GroupIds(pr, pr.tabsToWake[1]))) = 1
    /\ store = pr.updatedTabs

-----------------------------------------------------------------------------
-----------------------------------------------------------------------------
(* C4.  A second 'wake-tabs' request with the same ids, run against the    *)
(* collection the first one wrote, is a no-op: it opens nothing, notifies  *)
(* nothing, adds no continuation, raises no error and leaves the           *)
(* collection as it is.  The code does not keep this: of two requested     *)
(* groups of one window session it wakes only the first, and the second    *)
(* request wakes the other.                                                *)
C4_SecondRunNoOp ==
  \A p, q \in Procs :
    ( /\ p # q
      /\ procs[p].kind = "message" /\ procs[p].pc = "done"
      /\ procs[q].kind = "message" /\ procs[q].pc = "done"
      /\ procs[q].tabIds = procs[p].tabIds
      /\ procs[q].readFrom = p
      /\ procs[q].normalizedTabs = procs[p].updatedTabs )
    => /\ procs[q].log = <<>>
       /\ procs[q].updatedTabs = procs[q].normalizedTabs
       /\ procs[q].response = "success"

-----------------------------------------------------------------------------
(* C5.  After a startup run that read the collection at instant now, run   *)
(* alone, every stored item with wakeTime <= now has been materialized and *)
(* is gone from the persisted collection, and every item that remains has  *)
(* wakeTime > now.  The code does not keep this: of two overdue groups of  *)
(* one window session it wakes only the first.                             *)
C5_StartupWakesAllOverdue ==
  \A p \in Procs :
    LET pr == procs[p] IN
    (pr.kind = "startup" /\ pr.pc = "done") =>
      /\ \A n \in 1..Len(pr.normalizedTabs) :
           pr.normalizedTabs[n].wakeTime <= pr.startNow =>
             /\ pr.normalizedTabs[n].id \notin Ids(store)
             /\ pr.normalizedTabs[n].url # NoUrl =>
                  Opens(pr, pr.normalizedTabs[n].id) = 1
      /\ \A n \in 1..Len(store) : store[n].wakeTime > pr.startNow
-----------------------------------------------------------------------------
(* C6.  At startup each overdue, non-recurring solo item with a url causes *)
(* exactly one openTab call and is gone from the collection afterwards;    *)
(* the items whose wakeTime is still ahead cause no openTab or openWindow  *)
(* call and stay in the collection.                                        *)
C6_StartupSoloAndFuture ==
  \A p \in Procs :
    LET pr == procs[p] IN
    (pr.kind = "startup" /\ pr.pc = "done") =>
      \A n \in 1..Len(pr.normalizedTabs) :
        LET tab == pr.normalizedTabs[n] IN
        /\ ( /\ tab.wakeTime <= pr.startNow
             /\ tab.windowSessionId = NoSession
             /\ ~tab.isRecurring
             /\ tab.url # NoUrl )
           => /\ Calls(pr.log, LAMBDA e : IsOpen(e) /\ Names(e, tab.id)) =
                   << Call("openTab", tab.id, <<tab.id>>, <<tab.url>>, 0) >>
              /\ tab.id \notin Ids(store)
        /\ tab.wakeTime > pr.startNow
           => /\ Opens(pr, tab.id) = 0
              /\ \E m \in 1..Len(store) : store[m] = tab

\* a startup has reconciled a collection holding the overdue plain solo tab
\* and a tab that is not yet due
C6_Witness ==
  \E p \in Procs :
    LET pr == procs[p] IN
    /\ pr.kind = "startup" /\ pr.pc = "done"
    /\ \E n \in 1..Len(pr.normalizedTabs) :
         /\ pr.normalizedTabs[n].wakeTime <= pr.startNow
         /\ pr.normalizedTabs[n].windowSessionId = NoSession
         /\ ~pr.normalizedTabs[n].isRecurring
         /\ pr.normalizedTabs[n].url # NoUrl
         /\ Opens(pr, pr.normalizedTabs[n].id) = 1
    /\ \E n \in 1..Len(pr.normalizedTabs) :
         /\ pr.normalizedTabs[n].wakeTime > pr.startNow
         /\ pr.normalizedTabs[n].id \in Ids(store)

-----------------------------------------------------------------------------
(* C7.  When startup reconciliation is over, an alarm keyed by the item's  *)
(* id and set to its wakeTime has been requested for every item of the     *)
(* persisted collection with wakeTime > now, continuations included.       *)
C7_StartupRearms ==
  \A p \in Procs :
    LET pr == procs[p] IN
    (pr.kind = "startup" /\ pr.pc = "done") =>
      \A n \in 1..Len(store) :
        store[n].wakeTime > pr.startNow =>
          /\ Len(Calls(pr.log,
                       LAMBDA e : /\ e.op = "create"
                                  /\ e.ids = <<store[n].id>>
                                  /\ e.when = store[n].wakeTime)) >= 1
          /\ [id |-> store[n].id, when |-> store[n].wakeTime] \in alarms

\* a startup is over that left a stored item not yet due and a continuation,
\* and every alarm there is was requested by it
C7_Witness ==
  \E p \in Procs :
    LET pr == procs[p] IN
    /\ pr.kind = "startup" /\ pr.pc = "done"
    /\ \E n \in 1..Len(store) :
         /\ store[n].id \in Ids(pr.normalizedTabs)
         /\ store[n].wakeTime > pr.startNow
    /\ \E n \in 1..Len(store) : store[n].id \notin Ids(pr.normalizedTabs)
    /\ Cardinality(alarms) = Len(store)

-----------------------------------------------------------------------------
(* C8.  Two startup runs for one restart, back to back or overlapping,     *)
(* materialize no item twice and create no second continuation for an      *)
(* item.  The code does not keep this: two overlapping runs both read the  *)
(* overdue item and both wake it.                                          *)
C8_RedundantStartupSafe ==
  \A p, q \in Procs :
    ( /\ p # q
      /\ procs[p].kind = "startup" /\ procs[p].pc = "done"
      /\ procs[q].kind = "startup" /\ procs[q].pc = "done" )
    => \A id \in AllIds :
         /\ Opens(procs[p], id) + Opens(procs[q], id) <= 1
         /\ Len(CallsFor(procs[p], "create", {id}))
              + Len(CallsFor(procs[q], "create", {id})) <= 1

-----------------------------------------------------------------------------
-----------------------------------------------------------------------------
(* C10.  Waking a window group opens one window whose url list is the      *)
(* members' urls by windowIndex ascending, a missing index counting as 0,  *)
(* members of equal index in collection order, members without url left    *)
(* out; when no member has a url no window is opened, and the members are  *)
(* still removed and their alarms cleared.                                 *)

\* the sort key of the stored item at position m
KeyAt(pr, m) ==
  IF pr.normalizedTabs[m].windowIndex = NoIndex THEN 0
  ELSE pr.normalizedTabs[m].windowIndex

\* position a comes before position b in the window
Precedes(pr, a, b) ==
  \/ KeyAt(pr, a) < KeyAt(pr, b)
  \/ KeyAt(pr, a) = KeyAt(pr, b) /\ a < b

C10_WindowUrlOrder ==
  \A p \in Procs :
    LET pr == procs[p] IN
    WakeFinished(pr) =>
      \A n \in 1..Len(pr.tabsToWake) :
        FirstOfSession(pr, n) =>
          LET tab == pr.tabsToWake[n]
              G == GroupOf(pr, tab)
              U == { m \in G : pr.normalizedTabs[m].url # NoUrl }
              opened == CallsFor(pr, "openWindow", {tab.id})
          IN  /\ CallsFor(pr, "openTab", {tab.id}) = <<>>
              /\ IF U = {} THEN opened = <<>> ELSE Len(opened) = 1
              /\ \A e \in { opened[k] : k \in 1..Len(opened) } :
                   /\ Len(e.urls) = Cardinality(U)
                   /\ \A m \in U :
                        e.urls[1 + Cardinality({ a \in U : Precedes(pr, a, m) })]
                          = pr.normalizedTabs[m].url
              /\ \A m \in G :
                   /\ pr.normalizedTabs[m].id \notin Ids(pr.updatedTabs)
                   /\ Len(Calls(pr.log,
                         LAMBDA e : /\ e.op = "clear"
                                    /\ Names(e, pr.normalizedTabs[m].id))) = 1

\* the group stored as 1 (index 1), 2 (no index), 3 (index 0) has been
\* opened as one window with the urls of 2, 3, 1
C10_Witness ==
  \E p \in Procs :
    /\ procs[p].pc = "done"
    /\ \E n \in 1..Len(procs[p].log) :
         /\ procs[p].log[n].op = "openWindow"
         /\ procs[p].log[n].urls = <<2, 3, 1>>
-----------------------------------------------------------------------------
(* C11.  After waking a window group whose recurring members all yield a   *)
(* next occurrence, the continuation items form one window group again:    *)
(* one windowSessionId, fresh and different from the original, and one     *)
(* wakeTime, whatever the members' rules.  The code does not keep this:    *)
(* each member's wakeTime comes from its own rule.                         *)

\* the continuation items an invocation made while waking the group of the
\* trigger item tab
ContinuationsOf(pr, tab) ==
  { pr.updatedTabs[m] : m \in
      { k \in 1..Len(pr.updatedTabs) :
          \E c \in 1..Len(pr.log) :
            /\ pr.log[c].op = "create"
            /\ pr.log[c].trig = tab.id
            /\ pr.log[c].ids = <<pr.updatedTabs[k].id>> } }

C11_ContinuationsOneGroup ==
  \A p \in Procs :
    LET pr == procs[p] IN
    WakeFinished(pr) =>
      \A n \in 1..Len(pr.tabsToWake) :
        LET tab == pr.tabsToWake[n] IN
        ( /\ FirstOfSession(pr, n)
          /\ \A m \in GroupOf(pr, tab) :
               pr.normalizedTabs[m].isRecurring => Yields(pr.normalizedTabs[m]) )
        => /\ \A a, b \in ContinuationsOf(pr, tab) :
                /\ a.windowSessionId = b.windowSessionId
                /\ a.wakeTime = b.wakeTime
           /\ \A a \in ContinuationsOf(pr, tab) :
                /\ a.windowSessionId # NoSession
                /\ a.windowSessionId # tab.windowSessionId
                /\ a.windowSessionId \notin Ids(pr.normalizedTabs)
-----------------------------------------------------------------------------
(* The claims about calculateNextWakeTime speak of a call that returned:   *)
(* its rule, the instant `now' it read first (t1), the instant its         *)
(* candidate started from (t2) and its result.                             *)

Returned == calc.pc = "returned"
TypeOf(p) == IF Has(p, "type") THEN p.type ELSE "undefined"
\* the calendar day of an instant in the zone of the call
WallDay(t) == DayOf(LocalTime(calc.zone, t))
\* the weekday of an instant in the zone of the call
WallWeekday(t) == getDay(LocalTime(calc.zone, t))
\* today at the rule's time: the day of t2 with the rule's hour and minute
TodayAtRuleTime ==
  UTC(calc.zone, WallDay(calc.t2) * MinutesPerDay
                   + calc.pattern.time[1] * 60 + calc.pattern.time[2])

-----------------------------------------------------------------------------
(* C12.  Whenever calculateNextWakeTime yields an occurrence, of whatever  *)
(* rule type and at whatever instant, the occurrence is strictly later     *)
(* than now.                                                               *)
C12_OccurrenceAfterNow ==
  (Returned /\ calc.result # Null) => calc.result > calc.t1

\* a weekly rule for Mondays, asked on a Monday when the rule's time is not
\* ahead, has returned the Monday a week later
C12_Witness ==
  /\ Returned
  /\ TypeOf(calc.pattern) = "weekly"
  /\ Has(calc.pattern, "daysOfWeek")
  /\ calc.pattern.daysOfWeek = <<1>>
  /\ WallWeekday(calc.t1) = 1
  /\ calc.result # Null
  /\ WallDay(calc.result) = WallDay(calc.t1) + 7

-----------------------------------------------------------------------------
(* C13.  For a rule of any type with an endDate, at an instant now >=      *)
(* endDate, the next occurrence is none.                                   *)
C13_EndedYieldsNone ==
  ( /\ Returned
    /\ Has(calc.pattern, "endDate")
    /\ calc.t1 >= calc.pattern.endDate )
  => calc.result = Null

\* a daily rule asked at the very instant of its endDate has returned none
C13_Witness ==
  /\ Returned
  /\ TypeOf(calc.pattern) = "daily"
  /\ Has(calc.pattern, "endDate")
  /\ calc.t1 = calc.pattern.endDate
  /\ calc.result = Null

-----------------------------------------------------------------------------
-----------------------------------------------------------------------------
-----------------------------------------------------------------------------
(* C16.  For a weekly or custom rule whose daysOfWeek is absent or empty   *)
(* the next occurrence is none at every instant.                           *)
C16_NoDaysYieldsNone ==
  ( /\ Returned
    /\ TypeOf(calc.pattern) \in {"weekly", "custom"}
    /\ (~Has(calc.pattern, "daysOfWeek") \/ calc.pattern.daysOfWeek = <<>>) )
  => calc.result = Null

\* a custom rule with an empty daysOfWeek and no endDate has returned none
C16_Witness ==
  /\ Returned
  /\ TypeOf(calc.pattern) = "custom"
  /\ Has(calc.pattern, "daysOfWeek")
  /\ calc.pattern.daysOfWeek = <<>>
  /\ ~Has(calc.pattern, "endDate")
  /\ calc.result = Null
-----------------------------------------------------------------------------
(* C17.  Waking a recurring item whose rule is dead (end date reached, no  *)
(* daysOfWeek for weekly/custom, unknown type) removes the item for good:  *)
(* it is opened and notified, its alarm is cleared, no continuation is     *)
(* added and no alarm created for one, and the rest of the batch proceeds. *)

DeadRule(p, t) ==
  \/ Has(p, "endDate") /\ p.endDate # Unset /\ t >= p.endDate
  \/ /\ TypeOf(p) \in {"weekly", "custom"}
     /\ (~Has(p, "daysOfWeek") \/ p.daysOfWeek = <<>>)
  \/ TypeOf(p) \notin {"daily", "weekdays", "weekly", "custom", "monthly"}

\* the positions, in the collection an invocation read, of the items it
\* wakes: its solo triggers and the groups of its window triggers
Woken(pr) ==
  { m \in 1..Len(pr.normalizedTabs) :
      \E n \in 1..Len(pr.tabsToWake) :
        IF pr.tabsToWake[n].windowSessionId = NoSession
        THEN pr.normalizedTabs[m].id = pr.tabsToWake[n].id
        ELSE FirstOfSession(pr, n) /\ m \in GroupOf(pr, pr.tabsToWake[n]) }

C17_DeadRuleDropsItem ==
  \A p \in Procs :
    LET pr == procs[p] IN
    WakeFinished(pr) =>
      /\ \A n \in 1..Len(pr.tabsToWake) :
           pr.tabsToWake[n].id \notin Ids(pr.updatedTabs)
      /\ \A m \in Woken(pr) :
           LET item == pr.normalizedTabs[m] IN
           (item.isRecurring /\ DeadRule(item.recurrencePattern, now)) =>
             /\ item.url # NoUrl => Opens(pr, item.id) = 1
             /\ Len(Calls(pr.log,
                          LAMBDA e : e.op = "notify" /\ Names(e, item.id))) = 1
             /\ Len(Calls(pr.log,
                          LAMBDA e : e.op = "clear" /\ Names(e, item.id))) = 1
             /\ item.id \notin Ids(pr.updatedTabs)
             /\ \A k \in 1..Len(pr.updatedTabs) :
                  pr.updatedTabs[k].title # item.title
             /\ \A c \in 1..Len(pr.log) :
                  pr.log[c].op = "create" =>
                    \E k \in 1..Len(pr.updatedTabs) :
                      /\ pr.updatedTabs[k].id = pr.log[c].ids[1]
                      /\ pr.updatedTabs[k].title # item.title

\* a batch of a solo item under a rule with an empty daysOfWeek, a window
\* member under a rule without daysOfWeek and a window member under a live
\* rule has been woken and written: only the last one has a continuation
C17_Witness ==
  \E p \in Procs :
    LET pr == procs[p] IN
    /\ pr.pc = "done" /\ pr.error = "none"
    /\ Ids(pr.tabsToWake) = {2, 5, 7}
    /\ Len(store) = 1
    /\ store[1].title = 5
    /\ store[1].id \notin Ids(pr.normalizedTabs)
-----------------------------------------------------------------------------
(* C18.  A notification that fails does not block alarm cancellation or    *)
(* the change of the collection: the alarms of the item or group being     *)
(* woken are still cleared and the collection written no longer holds the  *)
(* woken ids.  The code does not keep this: the failure ends the           *)
(* invocation in the catch block.                                          *)
C18_NotifyFailureDoesNotBlock ==
  \A p \in Procs :
    LET pr == procs[p] IN
    (pr.pc = "done" /\ pr.error = "notifications.create") =>
      LET woken == IF InWindow(pr) THEN Ids(pr.sortedTabs)
                   ELSE {CurrentTab(pr).id}
      IN  /\ \A id \in woken :
               Len(Calls(pr.log, LAMBDA e : e.op = "clear" /\ Names(e, id))) = 1
          /\ woken \cap Ids(store) = {}

-----------------------------------------------------------------------------
(* C19.  A recurring item of the trigger set whose rule lacks a field (no  *)
(* time) never aborts the batch: the calculation does not throw, every     *)
(* item of the batch is processed and the collection is written.  The code *)
(* does not keep this: the calculation throws and nothing is written.      *)
C19_MalformedRuleDoesNotAbort ==
  \A p \in Procs :
    LET pr == procs[p] IN
    ( /\ pr.pc = "done"
      /\ pr.error \in {"none", "TypeError"}
      /\ \E n \in 1..Len(pr.tabsToWake) :
           /\ pr.tabsToWake[n].isRecurring
           /\ ~Has(pr.tabsToWake[n].recurrencePattern, "time") )
    => /\ pr.error = "none"
       /\ store = pr.updatedTabs
       /\ \A n \in 1..Len(pr.tabsToWake) :
            pr.tabsToWake[n].id \notin Ids(store)

-----------------------------------------------------------------------------
(* C20.  When the store write of a 'wake-tabs' request fails, the request  *)
(* is answered {success: false} and the persisted collection is the last   *)
(* one written; {success: true} is sent only after the write is done.      *)
C20_WriteFailureReported ==
  \A p \in Procs :
    LET pr == procs[p] IN
    pr.kind = "message" =>
      /\ pr.pc # "done" => pr.response = "none"
      /\ (pr.pc = "done" /\ pr.error = "storage.set") =>
           /\ pr.response = "failure"
           /\ store = pr.normalizedTabs
      /\ pr.response = "success" =>
           /\ pr.error = "none"
           /\ writer = p
           /\ store = pr.updatedTabs

\* a request whose store write failed has been answered {success: false};
\* the collection it computed differs from the persisted one
C20_Witness ==
  \E p \in Procs :
    LET pr == procs[p] IN
    /\ pr.kind = "message" /\ pr.pc = "done"
    /\ pr.error = "storage.set"
    /\ pr.response = "failure"
    /\ pr.updatedTabs # store
    /\ store = pr.normalizedTabs
-----------------------------------------------------------------------------
(* C21.  The persisted collection never holds two items of one id: from a  *)
(* collection of distinct ids, after any sequence of wakes (alarm,          *)
(* 'wake-tabs', startup), removals and reschedules, the ids of the         *)
(* collection are pairwise distinct, and the id of a continuation differs  *)
(* from every id of the collection it is added to.                         *)

UniqueIds(tabs) ==
  \A a, b \in 1..Len(tabs) : tabs[a].id = tabs[b].id => a = b

C21_IdsPairwiseDistinct ==
  /\ UniqueIds(store)
  /\ \A p \in Procs :
       LET pr == procs[p] IN
       /\ UniqueIds(pr.updatedTabs)
       /\ pr.pc = "alarms.create" =>
            LET c == pr.updatedTabs[Len(pr.updatedTabs)] IN
            /\ c.id \notin Ids(pr.normalizedTabs)
            /\ c.id \notin Ids(store)
            /\ c.id \notin Ids(SubSeq(pr.updatedTabs, 1, Len(pr.updatedTabs) - 1))

\* the view has rescheduled the two continuations of a woken window group
C21_Witness ==
  /\ popup.pc = "idle" /\ popup.op = "save"
  /\ writer = PopupWriter
  /\ Len(popup.tabIds) = 2
  /\ Len(store) = 2
  /\ \A n \in 1..Len(store) :
       /\ store[n].id >= FirstFresh
       /\ store[n].wakeTime = popup.newWakeTime
-----------------------------------------------------------------------------
(* C22.  For a weekly or custom rule with a non-empty daysOfWeek within    *)
(* 0..6 whose end date has not passed, the next occurrence falls on the    *)
(* smallest listed weekday after today's in this week, or else on the      *)
(* smallest listed weekday of next week; its weekday is listed, it lies 1  *)
(* to 7 calendar days after today and never on today.  Days [1,3,5] at     *)
(* 08:00, asked on a Wednesday at 10:00, give Friday 08:00 of that week.   *)
(* The code does not keep this when the month ends between its two reads   *)
(* of the clock.                                                           *)

\* the listed weekdays of the rule of the call
ListedDays ==
  { calc.pattern.daysOfWeek[n] : n \in 1..Len(calc.pattern.daysOfWeek) }

\* the days from today to the next listed weekday
DaysAhead ==
  LET today == WallWeekday(calc.t1)
      later == { d \in ListedDays : d > today }
      least(D) == CHOOSE d \in D : \A e \in D : d <= e
  IN  IF later # {} THEN least(later) - today
      ELSE 7 - today + least(ListedDays)

C22_WeeklyNextListedDay ==
  ( /\ Returned
    /\ TypeOf(calc.pattern) \in {"weekly", "custom"}
    /\ Has(calc.pattern, "daysOfWeek")
    /\ calc.pattern.daysOfWeek # <<>>
    /\ calc.result # Null )
  => /\ WallDay(calc.result) = WallDay(calc.t1) + DaysAhead
     /\ WallWeekday(calc.result) \in ListedDays
     /\ WallDay(calc.result) - WallDay(calc.t1) \in 1..7
     /\ ( /\ calc.pattern.daysOfWeek = <<1, 3, 5>>
          /\ calc.pattern.time = <<8, 0>>
          /\ WallWeekday(calc.t1) = 3
          /\ TimeOfDay(LocalTime(calc.zone, calc.t1)) = 10 * 60 )
        => LocalTime(calc.zone, calc.result) =
             (WallDay(calc.t1) + 2) * MinutesPerDay + 8 * 60
-----------------------------------------------------------------------------
(* C23.  For a monthly rule whose end date has not passed, the next        *)
(* occurrence is day dayOfMonth (1 when unset) of the current month at the *)
(* rule's time when that instant is strictly after now, and otherwise the  *)
(* same day of the following month; for dayOfMonth from 1 to 28 the day of *)
(* the month of the result is dayOfMonth and the result is the earliest    *)
(* such instant strictly after now.                                        *)

\* the day of the month the rule of the call asks for
RuleDayOfMonth ==
  IF Has(calc.pattern, "dayOfMonth") /\ calc.pattern.dayOfMonth # Unset
  THEN calc.pattern.dayOfMonth ELSE 1

\* that day of month mi at the rule's time; a day past the end of the month
\* is counted on into the next
RuleDayIn(mi) ==
  UTC(calc.zone, (MonthStart(mi) + RuleDayOfMonth - 1) * MinutesPerDay
                   + calc.pattern.time[1] * 60 + calc.pattern.time[2])

C23_MonthlyOnDayOfMonth ==
  (Returned /\ TypeOf(calc.pattern) = "monthly" /\ calc.result # Null) =>
    LET m == getMonth(LocalTime(calc.zone, calc.t1)) IN
    /\ calc.result =
         IF RuleDayIn(m) > calc.t1 THEN RuleDayIn(m) ELSE RuleDayIn(m + 1)
    /\ RuleDayOfMonth \in 1..28 =>
         /\ getDate(LocalTime(calc.zone, calc.result)) = RuleDayOfMonth
         /\ calc.result > calc.t1
         /\ \A mi \in 0..(m + 1) :
              RuleDayIn(mi) > calc.t1 => calc.result <= RuleDayIn(mi)
-----------------------------------------------------------------------------
(* C24.  An item without url never aborts a batch: waking a solo item      *)
(* without url makes no openTab call, and still notifies, clears the       *)
(* item's alarm, removes the item from the collection and, when it recurs  *)
(* under a live rule, adds its continuation; the later triggers of the     *)
(* batch are processed all the same.                                       *)

\* the items of a collection that continue a tab: same payload, an id the
\* collection read did not hold
ContinuationsIn(pr, tab) ==
  { m \in 1..Len(pr.updatedTabs) :
      /\ pr.updatedTabs[m].id \notin Ids(pr.normalizedTabs)
      /\ SamePayload(pr.updatedTabs[m], tab) }

C24_NoUrlStillWoken ==
  \A p \in Procs :
    LET pr == procs[p] IN
    /\ ( /\ Running(pr) /\ pr.i >= 1 /\ pr.i <= Len(pr.tabsToWake)
         /\ CurrentTab(pr).windowSessionId = NoSession
         /\ CurrentTab(pr).url = NoUrl )
       => pr.pc # "tabs.create"
    /\ WakeFinished(pr) =>
         /\ pr.error = "none"
         /\ \A n \in 1..Len(pr.tabsToWake) :
              LET tab == pr.tabsToWake[n] IN
              (tab.windowSessionId = NoSession /\ tab.url = NoUrl) =>
                /\ Opens(pr, tab.id) = 0
                /\ CallsFor(pr, "openTab", {tab.id}) = <<>>
                /\ CallsFor(pr, "openWindow", {tab.id}) = <<>>
                /\ Len(CallsFor(pr, "notify", {tab.id})) = 1
                /\ CallsFor(pr, "clear", {tab.id}) =
                     << Call("clear", tab.id, <<tab.id>>, <<>>, 0) >>
                /\ tab.id \notin Ids(pr.updatedTabs)
                /\ Yields(tab) => Cardinality(ContinuationsIn(pr, tab)) = 1
                /\ \A m \in (n + 1)..Len(pr.tabsToWake) :
                     /\ pr.tabsToWake[m].id \notin Ids(pr.updatedTabs)
                     /\ Len(Calls(pr.log,
                              LAMBDA e : /\ e.op = "notify"
                                         /\ Names(e, pr.tabsToWake[m].id))) = 1
                     /\ pr.tabsToWake[m].url # NoUrl =>
                          Opens(pr, pr.tabsToWake[m].id) = 1

\* a batch of the daily solo item without url, then the plain solo item
\* with one, has been woken and written: the second one was opened, the
\* first one has its continuation
C24_Witness ==
  \E p \in Procs :
    LET pr == procs[p] IN
    /\ pr.pc = "done" /\ pr.error = "none"
    /\ idsOf(pr.tabsToWake) = <<1, 2>>
    /\ pr.tabsToWake[1].url = NoUrl
    /\ Opens(pr, 1) = 0
    /\ Opens(pr, 2) = 1
    /\ Len(store) = 1
    /\ store[1].title = 1
    /\ store[1].id \notin Ids(pr.normalizedTabs)
-----------------------------------------------------------------------------
(* C25.  An alarm that fires for an id the stored collection no longer     *)
(* holds is a silent no-op: the invocation opens no tab or window, sends   *)
(* no notification, creates and clears no alarm and writes nothing to the  *)
(* store.                                                                  *)
C25_AbsentItemNoOp ==
  \A p \in Procs :
    LET pr == procs[p] IN
    ( /\ pr.kind = "alarm"
      /\ pr.pc # "storage.get"
      /\ pr.tabId \notin Ids(pr.normalizedTabs) )
    => /\ pr.pc = "done"
       /\ pr.error = "none"
       /\ pr.log = <<>>
       /\ pr.updatedTabs = pr.normalizedTabs
       /\ writer # p

\* an alarm fired for an item that another invocation woke and removed
\* before the alarm's listener read the collection, which still holds
\* another item
C25_Witness ==
  \E p \in Procs :
    LET pr == procs[p] IN
    /\ pr.kind = "alarm" /\ pr.pc = "done"
    /\ pr.tabId \notin Ids(pr.normalizedTabs)
    /\ pr.normalizedTabs # <<>>
    /\ pr.normalizedTabs = store
    /\ TimesOpened(pr.tabId) = 1
    /\ pr.log = <<>>
-----------------------------------------------------------------------------
(* C26.  The effects of a wake are scoped to the items it processes: every *)
(* stored item that is neither a solo trigger nor a member of a processed  *)
(* window group is in the resulting collection unchanged, in the same      *)
(* relative order, and the wake itself makes no openTab, openWindow,       *)
(* notification, alarm clear or alarm create call for it.                  *)

\* the ids of the items an invocation read and does not wake
Untouched(pr) ==
  { pr.normalizedTabs[m].id : m \in (1..Len(pr.normalizedTabs)) \ Woken(pr) }

C26_EffectsScoped ==
  \A p \in Procs :
    LET pr == procs[p] IN
    WakeFinished(pr) =>
      /\ SelectSeq(pr.updatedTabs, LAMBDA tab : tab.id \in Untouched(pr)) =
           SelectSeq(pr.normalizedTabs, LAMBDA tab : tab.id \in Untouched(pr))
      /\ \A n \in 1..Len(pr.log) :
           pr.log[n].trig # 0 =>
             /\ pr.log[n].trig \notin Untouched(pr)
             /\ \A id \in Untouched(pr) : ~Names(pr.log[n], id)

\* a request for one member of a window group has been served and written;
\* a solo item and an item of the same window session and another wakeTime
\* were not woken
C26_Witness ==
  \E p \in Procs :
    LET pr == procs[p] IN
    /\ pr.kind = "message" /\ pr.pc = "done"
    /\ store = pr.updatedTabs
    /\ Len(pr.tabsToWake) = 1
    /\ pr.tabsToWake[1].windowSessionId # NoSession
    /\ pr.log # <<>>
    /\ \E a, b \in 1..Len(store) :
         /\ a < b
         /\ store[a].id \in Untouched(pr)
         /\ store[b].id \in Untouched(pr)
         /\ store[a].windowSessionId = pr.tabsToWake[1].windowSessionId
         /\ store[b].windowSessionId = NoSession
-----------------------------------------------------------------------------
(* C27.  The last-writer-wins hazard is reachable: when an alarm for a     *)
(* solo item X and a 'wake-tabs' request that does not name X both read    *)
(* the same collection and the request writes last, X, which the alarm's   *)
(* invocation opened and removed and whose alarm it cleared, is in the     *)
(* persisted collection again.                                             *)
C27_LaterWriteResurrects ==
  \A p, q \in Procs :
    LET pr == procs[p]
        qr == procs[q]
    IN
    ( /\ p # q
      /\ pr.kind = "alarm" /\ pr.pc = "done"
      /\ Len(pr.tabsToWake) = 1
      /\ pr.tabsToWake[1].windowSessionId = NoSession
      /\ qr.kind = "message" /\ qr.pc = "done"
      /\ pr.tabId \notin qr.tabIds
      /\ qr.normalizedTabs = pr.normalizedTabs
      /\ writer = q )
    => /\ pr.tabId \in Ids(store)
       /\ pr.tabId \notin Ids(pr.updatedTabs)
       /\ CallsFor(pr, "clear", {pr.tabId}) =
            << Call("clear", pr.tabId, <<pr.tabId>>, <<>>, 0) >>
       /\ pr.tabsToWake[1].url # NoUrl => Opens(pr, pr.tabId) = 1

\* the alarm of the plain solo item 7 and a request for another item read
\* the same collection; the alarm's invocation opened 7 and wrote a
\* collection without it, the request wrote last and was answered
\* {success: true}: 7 is stored again and has no alarm
C27_Witness ==
  \E p, q \in Procs :
    LET pr == procs[p]
        qr == procs[q]
    IN
    /\ p # q
    /\ pr.kind = "alarm" /\ pr.pc = "done" /\ pr.tabId = 7
    /\ qr.kind = "message" /\ qr.pc = "done" /\ 7 \notin qr.tabIds
    /\ qr.response = "success"
    /\ qr.normalizedTabs = pr.normalizedTabs
    /\ qr.tabsToWake # <<>>
    /\ writer = q
    /\ Opens(pr, 7) = 1
    /\ 7 \notin Ids(pr.updatedTabs)
    /\ 7 \in Ids(store)
    /\ \A a \in alarms : a.id # 7
-----------------------------------------------------------------------------
(* C28.  The stored collection, not the alarms, decides what fires in the  *)
(* end: when the browser keeps starting and nobody removes the item, every *)
(* stored item is opened in the end and its id leaves the collection in    *)
(* the end, even with no alarm registered and no alarm ever firing.  The   *)
(* code does not keep this for an item under a rule without time: every    *)
(* start opens it and fails before the collection is written.              *)

\* some invocation has opened the item in a tab or window
Materialized(id) == \E p \in Procs : Opens(procs[p], id) >= 1

C28_StoreIsGroundTruth ==
  \A id \in 1..Len(LiveCatalogue) :
    /\ (id \in Ids(store)) ~> Materialized(id)
    /\ (id \in Ids(store)) ~> (id \notin Ids(store))
-----------------------------------------------------------------------------
(* C29.  After a 'wake-tabs' request was answered with success, run alone, *)
(* none of the requested ids that were in the stored collection remains in *)
(* the persisted collection, and each of them that has a url was included  *)
(* in exactly one openTab/openWindow call, whatever ids were selected.     *)
(* The code does not keep this for ids of two groups of one window         *)
(* session: it wakes only the first group.                                 *)
C29_WakeTabsWakesAllRequested ==
  \A p \in Procs :
    LET pr == procs[p] IN
    (pr.kind = "message" /\ pr.pc = "done" /\ pr.response = "success") =>
      \A n \in 1..Len(pr.normalizedTabs) :
        LET tab == pr.normalizedTabs[n] IN
        tab.id \in pr.tabIds =>
          /\ tab.id \notin Ids(store)
          /\ tab.url # NoUrl => Opens(pr, tab.id) = 1
-----------------------------------------------------------------------------
(* C30.  A group reschedule that went through sets wakeTime of exactly the *)
(* group's members to the new value and leaves every other field and every *)
(* other item of the persisted collection as it was, keeps the ids, keeps  *)
(* the members one group (same windowSessionId, same wakeTime), and clears *)
(* and re-creates one alarm per member at the new wake time.  The code     *)
(* does not keep the part about the other items: it writes the list the    *)
(* view loaded, whatever the store holds by then.                          *)

\* the ids the operation of the view is about
PopupTargets == { popup.tabIds[n] : n \in 1..Len(popup.tabIds) }

\* the calls of the view's log with this operation, id and instant
PopupCalls(op, id, when) ==
  Calls(popup.log, LAMBDA e : e.op = op /\ e.ids = <<id>> /\ e.when = when)

C30_RescheduleMovesOnlyTheGroup ==
  /\ (popup.op = "save" /\ popup.pc \in {"alarms.clear", "alarms.create"}) =>
       /\ Ids(store) = Ids(popup.replaced)
       /\ Len(store) = Len(popup.replaced)
       /\ \A n \in 1..Len(popup.replaced) :
            LET tab == popup.replaced[n] IN
            \E m \in 1..Len(store) :
              store[m] = IF tab.id \in PopupTargets
                         THEN [tab EXCEPT !.wakeTime = popup.newWakeTime]
                         ELSE tab
       /\ \A m, k \in 1..Len(store) :
            (store[m].id \in PopupTargets /\ store[k].id \in PopupTargets) =>
              /\ store[m].wakeTime = popup.newWakeTime
              /\ store[m].windowSessionId = store[k].windowSessionId
  /\ (popup.op = "save" /\ popup.pc = "idle") =>
       \A id \in PopupTargets :
         /\ Len(PopupCalls("clear", id, 0)) = 1
         /\ Len(PopupCalls("create", id, popup.newWakeTime)) = 1
         /\ Len(Calls(popup.log, LAMBDA e : e.ids = <<id>>)) = 2
-----------------------------------------------------------------------------
(* C31.  A reschedule whose new wake time is empty, is no valid instant or *)
(* is not strictly later than the current instant is turned down with an   *)
(* edit error and leaves the persisted collection, the list of the view    *)
(* and all alarms as they were; a reschedule the view goes on with has a   *)
(* wake time that is an instant strictly later than the current one.       *)
C31_InvalidEditRejected ==
  [][ /\ (popup.op = "none" /\ popup'.op = "rejected") =>
           /\ popup'.newWakeTime = NaN \/ popup'.newWakeTime <= now
           /\ popup'.editError = "invalidWakeTime"
           /\ popup'.pc = "idle"
           /\ popup'.log = <<>>
           /\ popup'.delayedTabs = popup.delayedTabs
           /\ store' = store
           /\ alarms' = alarms
      /\ (popup.op = "none" /\ popup'.op = "save") =>
           /\ popup'.newWakeTime # NaN
           /\ popup'.newWakeTime > now
      /\ (popup.op = "rejected" /\ popup'.op = "rejected") =>
           popup' = popup
    ]_vars

\* an edit to the present minute has been turned down
C31_Witness ==
  /\ popup.op = "rejected"
  /\ popup.editError = "invalidWakeTime"
  /\ popup.newWakeTime = now
  /\ popup.delayedTabs # <<>>
  /\ store # <<>>
  /\ alarms # {}
-----------------------------------------------------------------------------
(* C32.  A remove or a reschedule of the popup changes only its targets in *)
(* the persisted collection: every item that is stored when the popup      *)
(* writes and is no target of the operation is still stored, unchanged,    *)
(* after the write, a continuation that a background wake added after the  *)
(* view loaded its list included.  The code does not keep this: the view   *)
(* writes a collection made from the list it loaded.                       *)
C32_PopupWriteKeepsOthers ==
  (popup.op \in {"remove", "save"}
     /\ popup.pc \in {"alarms.clear", "alarms.create"}) =>
    \A n \in 1..Len(popup.replaced) :
      popup.replaced[n].id \notin PopupTargets =>
        \E m \in 1..Len(store) : store[m] = popup.replaced[n]
-----------------------------------------------------------------------------
(* C33.  Once a remove of the popup (one tab, a group, a selection) has    *)
(* completed, each removed id is absent from the persisted collection, no  *)
(* alarm is armed for it, and no invocation of the background opens the    *)
(* removed item afterwards, however the background's invocations are       *)
(* interleaved with the remove.  The code does not keep this: an           *)
(* invocation that read the collection before the remove wrote goes on     *)
(* with what it read.                                                      *)
RemoveCompleted == popup.op = "remove" /\ popup.pc = "idle"

C33_RemovedStaysRemoved ==
  [][ RemoveCompleted' =>
        \A id \in PopupTargets' :
          /\ id \notin Ids(store')
          /\ \A a \in alarms' : a.id # id
          /\ RemoveCompleted =>
               \A p \in Procs : Opens(procs'[p], id) <= Opens(procs[p], id)
    ]_vars
-----------------------------------------------------------------------------
(* C34.  When operations run one at a time and no adapter call fails, the  *)
(* store and the alarms stay consistent: started with an alarm for every   *)
(* stored item at its wakeTime, after every completed wake by an alarm,    *)
(* manual wake, startup, remove or reschedule every stored item with       *)
(* wakeTime > now has an alarm armed at exactly its wakeTime and no armed  *)
(* alarm names an id that is not stored.  The code does not keep this: a   *)
(* write of the popup drops a continuation whose alarm stays armed.        *)

\* no invocation of the background and no operation of the popup is under
\* way
AllCompleted ==
  /\ \A p \in Procs : ~Running(procs[p])
  /\ popup.pc \in {"closed", "idle"}

C34_StoreAndAlarmsConsistent ==
  AllCompleted =>
    /\ \A n \in 1..Len(store) :
         store[n].wakeTime > now =>
           /\ [id |-> store[n].id, when |-> store[n].wakeTime] \in alarms
           /\ \A a \in alarms : a.id = store[n].id => a.when = store[n].wakeTime
    /\ \A a \in alarms : a.id \in Ids(store)
====
